---------------------------- MODULE Spec2Model ----------------------------
(***************************************************************************)
(* Sampling / capture engine of the interview assistant.                   *)
(*                                                                         *)
(*   MediaProvider        (SharedMediaManager.tsx)  shared capture stream  *)
(*   VideoAnalysisShared  (VideoAnalysisShared.tsx) sampler and detector   *)
(*   InterviewPage        (InterviewPage.tsx)       the enabled flag       *)
(*                                                                         *)
(* React runs the passive effects of a commit before it handles the next   *)
(* event, timer or promise callback: an effect whose dependencies changed  *)
(* is a step of its own here, and every other step waits for it.           *)
(***************************************************************************)
EXTENDS Naturals, FiniteSets, Sequences, TLC

VARIABLES
    \* ---- MediaProvider ----
    streamRef,        \* streamRef.current: 0 (null) or the id of the held stream
    stream,           \* React state `stream`
    hasPermissions,   \* React state `hasPermissions`
    isInitializing,   \* React state `isInitializing`
    error,            \* React state `error`: "none" or the kind of the message
    pending,          \* getUserMedia promises not yet settled
    open,             \* streams whose tracks are live
    stopCount,        \* per stream: how often track.stop() ran on its tracks
    hwRequests,       \* getUserMedia calls issued so far
    providerMounted,  \* the MediaProvider is mounted
    mounted,          \* consumers of the context that are mounted
    effectDue,        \* consumers whose request-access effect has to run
    op,               \* the handler that ran last, and who called it
    \* ---- InterviewPage ----
    questionHasBeenRead,  \* React state `questionHasBeenRead`
    aiIsSpeaking,         \* React state `aiIsSpeaking`
    \* ---- VideoAnalysisShared ----
    isVideoReady,         \* React state `isVideoReady`
    mediaPipe,            \* "idle" | "loading" | "ready" | "failed"
    lastFaceDetections,   \* length of the React state `lastFaceDetections`
    analysisInterval,     \* analysisIntervalRef.current: a live interval or none
    processingInterval,   \* the 125 ms MediaPipe interval is live
    inFlight,             \* faceDetection.send() calls not yet finished
    intervalEffectDue,    \* the analysis-interval effect has to run
    processingEffectDue,  \* the MediaPipe-processing effect has to run
    elapsed,              \* seconds since the live analysis interval was started
    periodSamples,        \* samples emitted by the live analysis interval
    periodErrors,         \* ticks of the live analysis interval an error skipped
    wasPaused,            \* an analysis interval was cancelled by a pause before
    lastTick              \* what the last tick of the analysis interval did

mediaVars == <<streamRef, stream, hasPermissions, isInitializing, error,
               pending, open, stopCount, hwRequests, providerMounted,
               mounted, effectDue, op>>

samplerVars == <<questionHasBeenRead, aiIsSpeaking, isVideoReady, mediaPipe,
                 lastFaceDetections, analysisInterval, processingInterval,
                 inFlight, intervalEffectDue, processingEffectDue, elapsed,
                 periodSamples, periodErrors, wasPaused, lastTick>>

VARIABLES
    currentQuestion,      \* HomePage state `currentQuestion`
    isLoading,            \* HomePage state `isLoading`
    videoAnalysisData,    \* InterviewPage state `videoAnalysisData`: the window
    evaluating,           \* onSubmitAnswer calls awaiting /api/evaluate-answer
    evaluationResults,    \* HomePage state `evaluationResults`
    resetEffectDue,       \* InterviewPage's effect on [currentQuestion] has to run
    now,                  \* Date.now(), counted in samples emitted so far
    frame,                \* what the frame under analysis shows
    sample,               \* the analysis of `frame` handed to onAnalysisUpdate
    videoData,            \* the argument of the aggregation under way
    processed             \* what the aggregation returned

windowVars == <<currentQuestion, isLoading, videoAnalysisData, evaluating,
                evaluationResults, resetEffectDue, now>>

scoreVars == <<frame, sample, videoData, processed>>

VARIABLES
    textToSpeech,         \* TextToSpeech: isPlaying, isGenerating, the audio element
    videoAnalysis         \* the standalone VideoAnalysis component and its capture

componentVars == <<textToSpeech, videoAnalysis>>

pageVars == <<windowVars, scoreVars, componentVars>>

vars == <<mediaVars, samplerVars, windowVars, scoreVars, componentVars>>

-----------------------------------------------------------------------------
\* Bounds of the model.
MaxRequests == 3
MaxInFlight == 2
MaxElapsed == 62
MaxDetections == 1
MaxErrors == 1

\* setInterval(analyzeFrame, 5000), in seconds.
Period == 5

None == 0
NoError == "none"
Consumers == {"video", "voice"}
Streams == 1..(MaxRequests + 1)

\* The DOMException names getUserMedia rejects with.
RejectNames == {"NotAllowedError", "NotFoundError", "NotReadableError", "OtherError"}

\* requestAccess (catch): the message chosen for a rejection.
ErrorMessage(name) ==
    CASE name = "NotAllowedError"  -> "PermissionDenied"
      [] name = "NotFoundError"    -> "DeviceUnavailable"
      [] name = "NotReadableError" -> "DeviceBusy"
      [] OTHER                     -> "Generic"

\* The value the provider hands to its consumers.
Holders == IF stream # None THEN mounted ELSE {}

\* A commit whose hasPermissions or error differ re-runs the request-access
\* effect of every mounted consumer (deps [hasPermissions, mediaError, requestAccess]).
EffectsAfter(newHP, newErr, base) ==
    IF newHP # hasPermissions \/ newErr # error THEN mounted ELSE base

NoEffectDue == effectDue = {} /\ ~intervalEffectDue /\ ~processingEffectDue

-----------------------------------------------------------------------------
InitMedia ==
    /\ streamRef = None
    /\ stream = None
    /\ hasPermissions = FALSE
    /\ isInitializing = FALSE
    /\ error = NoError
    /\ pending = 0
    /\ open = {}
    /\ stopCount = [s \in Streams |-> 0]
    /\ hwRequests = 0
    /\ providerMounted = TRUE
    /\ mounted = {}
    /\ effectDue = {}
    /\ op = <<"init", "none">>

\* A consumer of the context mounts: its effects run after the first commit.
Mount(c) ==
    /\ providerMounted
    /\ NoEffectDue
    /\ c \notin mounted
    /\ mounted' = mounted \cup {c}
    /\ effectDue' = {c}
    /\ op' = <<"mount", c>>
    /\ UNCHANGED <<streamRef, stream, hasPermissions, isInitializing, error,
                   pending, open, stopCount, hwRequests, providerMounted>>

\* requestAccess, up to the await: `due` is the set of effects still to run
\* once this call has returned.
RequestAccess_NoReuse(how, due) ==
    /\ hwRequests < MaxRequests
    /\ isInitializing' = TRUE
    /\ error' = NoError
    /\ pending' = pending + 1
    /\ hwRequests' = hwRequests + 1
    /\ effectDue' = EffectsAfter(hasPermissions, NoError, due)
    /\ op' = <<"requestAccess", how>>
    /\ UNCHANGED <<streamRef, stream, hasPermissions, open, stopCount,
                   providerMounted, mounted>>

RequestAccess(how, due) ==
    IF streamRef # None
    THEN /\ effectDue' = due
         /\ op' = <<"requestAccess", how>>
         /\ UNCHANGED <<streamRef, stream, hasPermissions, isInitializing, error,
                        pending, open, stopCount, hwRequests, providerMounted,
                        mounted>>
    ELSE /\ hwRequests < MaxRequests
         /\ isInitializing' = TRUE
         /\ error' = NoError
         /\ pending' = pending + 1
         /\ hwRequests' = hwRequests + 1
         /\ effectDue' = EffectsAfter(hasPermissions, NoError, due)
         /\ op' = <<"requestAccess", how>>
         /\ UNCHANGED <<streamRef, stream, hasPermissions, open, stopCount,
                        providerMounted, mounted>>

\* The condition under which a consumer's effect calls requestAccess.
AutoRequestWanted_IgnoreError == ~hasPermissions

AutoRequestWanted == ~hasPermissions /\ error = NoError

\* The request-access effect of a consumer.
RequestEffect(c) ==
    /\ c \in effectDue
    /\ IF AutoRequestWanted
       THEN RequestAccess("effect", effectDue \ {c})
       ELSE /\ effectDue' = effectDue \ {c}
            /\ op' = <<"effect", c>>
            /\ UNCHANGED <<streamRef, stream, hasPermissions, isInitializing,
                           error, pending, open, stopCount, hwRequests,
                           providerMounted, mounted>>

\* The retry / authorise button, rendered while there is an error or no permission.
ButtonShown == error # NoError \/ ~hasPermissions

RetryClick(c) ==
    /\ NoEffectDue
    /\ c \in mounted
    /\ ButtonShown
    /\ RequestAccess("button", {})

\* Streams that getUserMedia has delivered so far.
Delivered == open \cup {t \in Streams : stopCount[t] > 0}

\* getUserMedia resolves: the new stream is recorded (requestAccess after the await).
\* A provider that is no longer mounted ignores the state setters; the ref is
\* written all the same.
GetUserMediaResolve ==
    /\ NoEffectDue
    /\ pending > 0
    /\ LET id == Cardinality(Delivered) + 1
       IN  /\ open' = open \cup {id}
           /\ streamRef' = id
           /\ stream' = IF providerMounted THEN id ELSE stream
    /\ hasPermissions' = IF providerMounted THEN TRUE ELSE hasPermissions
    /\ isInitializing' = IF providerMounted THEN FALSE ELSE isInitializing
    /\ pending' = pending - 1
    /\ effectDue' = IF providerMounted
                    THEN EffectsAfter(TRUE, error, effectDue)
                    ELSE effectDue
    /\ op' = <<"resolve", "none">>
    /\ UNCHANGED <<error, stopCount, hwRequests, providerMounted, mounted>>

\* getUserMedia rejects: the error is recorded (requestAccess catch / finally).
GetUserMediaReject(name) ==
    /\ NoEffectDue
    /\ pending > 0
    /\ error' = IF providerMounted THEN ErrorMessage(name) ELSE error
    /\ hasPermissions' = IF providerMounted THEN FALSE ELSE hasPermissions
    /\ isInitializing' = IF providerMounted THEN FALSE ELSE isInitializing
    /\ pending' = pending - 1
    /\ effectDue' = IF providerMounted
                    THEN EffectsAfter(FALSE, ErrorMessage(name), effectDue)
                    ELSE effectDue
    /\ op' = <<"reject", "none">>
    /\ UNCHANGED <<streamRef, stream, open, stopCount, hwRequests,
                   providerMounted, mounted>>

\* stopStream: stops the tracks of the held stream, if there is one. The third
\* field of op tells whether a stream was held.
StopStream_NoClear(who) ==
    IF streamRef # None
    THEN /\ open' = open \ {streamRef}
         /\ stopCount' = [stopCount EXCEPT ![streamRef] = @ + 1]
         /\ streamRef' = streamRef
         /\ stream' = None
         /\ hasPermissions' = FALSE
         /\ op' = <<"stopStream", who, TRUE>>
    ELSE /\ op' = <<"stopStream", who, FALSE>>
         /\ UNCHANGED <<streamRef, stream, hasPermissions, open, stopCount>>

StopStream(who) ==
    IF streamRef # None
    THEN /\ open' = open \ {streamRef}
         /\ stopCount' = [stopCount EXCEPT ![streamRef] = @ + 1]
         /\ streamRef' = None
         /\ stream' = None
         /\ hasPermissions' = FALSE
         /\ op' = <<"stopStream", who, TRUE>>
    ELSE /\ op' = <<"stopStream", who, FALSE>>
         /\ UNCHANGED <<streamRef, stream, hasPermissions, open, stopCount>>

\* A consumer calls the stopStream the context hands out.
ConsumerStop(c) ==
    /\ NoEffectDue
    /\ c \in mounted
    /\ StopStream(c)
    /\ effectDue' = IF hasPermissions' # hasPermissions THEN mounted ELSE effectDue
    /\ UNCHANGED <<isInitializing, error, pending, hwRequests, providerMounted,
                   mounted>>

\* The provider unmounts with everything below it: its cleanup calls stopStream.
ProviderUnmount ==
    /\ NoEffectDue
    /\ providerMounted
    /\ StopStream("unmount")
    /\ providerMounted' = FALSE
    /\ mounted' = {}
    /\ effectDue' = {}
    /\ UNCHANGED <<isInitializing, error, pending, hwRequests>>

-----------------------------------------------------------------------------
\* InterviewPage and VideoAnalysisShared.

mediaState == <<streamRef, stream, hasPermissions, isInitializing, error,
                pending, open, stopCount, hwRequests, providerMounted,
                mounted, effectDue>>

\* InterviewPage.videoAnalysisActive, the isActive prop of VideoAnalysisShared.
ActiveOf(read, speaking) == read /\ ~speaking

videoAnalysisActive == ActiveOf(questionHasBeenRead, aiIsSpeaking)

\* VideoAnalysisShared renders its <video> only past the two early returns.
VideoRendered == error = NoError /\ hasPermissions

NoInterval == [on |-> FALSE, due |-> 0, period |-> 0, active |-> FALSE,
               videoReady |-> FALSE, ready |-> FALSE, det |-> FALSE,
               faceHistory |-> <<>>]

NoTick == [fired |-> FALSE, active |-> FALSE, mpReady |-> FALSE,
           emitted |-> FALSE, real |-> FALSE, threw |-> FALSE]

InitSamplerVars ==
    /\ questionHasBeenRead = FALSE
    /\ aiIsSpeaking = FALSE
    /\ isVideoReady = FALSE
    /\ mediaPipe = "idle"
    /\ lastFaceDetections = 0
    /\ analysisInterval = NoInterval
    /\ processingInterval = FALSE
    /\ inFlight = 0
    /\ intervalEffectDue = FALSE
    /\ processingEffectDue = FALSE
    /\ elapsed = 0
    /\ periodSamples = 0
    /\ periodErrors = 0
    /\ wasPaused = FALSE
    /\ lastTick = NoTick

\* The handlers InterviewPage gives to TextToSpeech, and its reset effect on a
\* change of currentQuestion. A change of isActive re-runs the interval effect.
SetQuestionState(read, speaking, name) ==
    /\ NoEffectDue
    /\ providerMounted
    /\ questionHasBeenRead' = read
    /\ aiIsSpeaking' = speaking
    /\ intervalEffectDue' = ("video" \in mounted
                             /\ ActiveOf(read, speaking) # videoAnalysisActive)
    /\ op' = <<name, "none">>
    /\ UNCHANGED mediaState
    /\ UNCHANGED <<isVideoReady, mediaPipe, lastFaceDetections, analysisInterval,
                   processingInterval, inFlight, processingEffectDue, elapsed,
                   periodSamples, periodErrors, wasPaused, lastTick>>

handleQuestionStart == SetQuestionState(questionHasBeenRead, TRUE, "handleQuestionStart")

handleQuestionEnd == SetQuestionState(TRUE, FALSE, "handleQuestionEnd")

handleQuestionError == SetQuestionState(TRUE, FALSE, "handleQuestionError")

QuestionChange == SetQuestionState(FALSE, FALSE, "questionChange")

\* loadedmetadata, then video.play() resolves: the video is ready, audio analysis
\* is set up and the MediaPipe scripts start loading.
VideoReady ==
    /\ NoEffectDue
    /\ "video" \in mounted
    /\ stream # None
    /\ VideoRendered
    /\ ~isVideoReady
    /\ isVideoReady' = TRUE
    /\ mediaPipe' = "loading"
    /\ intervalEffectDue' = TRUE
    /\ processingEffectDue' = TRUE
    /\ op' = <<"videoReady", "none">>
    /\ UNCHANGED mediaState
    /\ UNCHANGED <<questionHasBeenRead, aiIsSpeaking, lastFaceDetections,
                   analysisInterval, processingInterval, inFlight, elapsed,
                   periodSamples, periodErrors, wasPaused, lastTick>>

\* The React state `faceHistory`, where the model follows it: the positions of
\* the faces the detector reported, held with the frame under analysis.
HistoryHeld == IF frame.kind = "mediapipe" THEN frame.faceHistory ELSE <<>>

\* The interval the effect creates: setInterval(analyzeFrame, 5000), analyzeFrame
\* being the callback of the render the effect belongs to, with the detector
\* state and the face history of that render.
NewInterval_EverySecond ==
    [on |-> TRUE, due |-> 1, period |-> 1, active |-> videoAnalysisActive,
     videoReady |-> isVideoReady, ready |-> (mediaPipe = "ready"),
     det |-> (lastFaceDetections > 0), faceHistory |-> HistoryHeld]

NewInterval ==
    [on |-> TRUE, due |-> Period, period |-> Period, active |-> videoAnalysisActive,
     videoReady |-> isVideoReady, ready |-> (mediaPipe = "ready"),
     det |-> (lastFaceDetections > 0), faceHistory |-> HistoryHeld]

\* The analysis-interval effect, deps [isActive, isVideoReady]: the cleanup of its
\* last run, then its body.
IntervalAfterEffect_KeepOnPause ==
    IF videoAnalysisActive /\ isVideoReady
    THEN NewInterval
    ELSE analysisInterval

IntervalAfterEffect ==
    IF videoAnalysisActive /\ isVideoReady
    THEN NewInterval
    ELSE NoInterval

AnalysisIntervalEffect ==
    /\ intervalEffectDue
    /\ intervalEffectDue' = FALSE
    /\ analysisInterval' = IntervalAfterEffect
    /\ elapsed' = IF analysisInterval.on /\ analysisInterval'.on THEN elapsed ELSE 0
    /\ periodSamples' = IF analysisInterval.on /\ analysisInterval'.on
                        THEN periodSamples ELSE 0
    /\ periodErrors' = IF analysisInterval.on /\ analysisInterval'.on
                       THEN periodErrors ELSE 0
    /\ wasPaused' = (wasPaused \/ (analysisInterval.on /\ ~videoAnalysisActive))
    /\ op' = <<"intervalEffect", "none">>
    /\ UNCHANGED mediaState
    /\ UNCHANGED <<questionHasBeenRead, aiIsSpeaking, isVideoReady, mediaPipe,
                   lastFaceDetections, processingInterval, inFlight,
                   processingEffectDue, lastTick>>

\* The MediaPipe-processing effect, deps [isVideoReady, isMediaPipeReady,
\* processMediaPipeFrame].
ProcessingIntervalEffect ==
    /\ processingEffectDue
    /\ ~intervalEffectDue
    /\ processingEffectDue' = FALSE
    /\ processingInterval' = (isVideoReady /\ mediaPipe = "ready")
    /\ op' = <<"processingEffect", "none">>
    /\ UNCHANGED mediaState
    /\ UNCHANGED <<questionHasBeenRead, aiIsSpeaking, isVideoReady, mediaPipe,
                   lastFaceDetections, analysisInterval, inFlight,
                   intervalEffectDue, elapsed, periodSamples, periodErrors,
                   wasPaused, lastTick>>

\* The cleanups of VideoAnalysisShared when it unmounts.
SamplerUnmount ==
    /\ analysisInterval' = NoInterval
    /\ processingInterval' = FALSE
    /\ intervalEffectDue' = FALSE
    /\ processingEffectDue' = FALSE
    /\ elapsed' = 0
    /\ periodSamples' = 0
    /\ periodErrors' = 0
    /\ UNCHANGED <<questionHasBeenRead, aiIsSpeaking, isVideoReady, mediaPipe,
                   lastFaceDetections, inFlight, wasPaused, lastTick>>

\* The interview page unmounts: the provider and everything below it.
Unmount == ProviderUnmount /\ SamplerUnmount

\* initializeMediaPipe finishes: the detector is ready (isMediaPipeReady), or it
\* failed (mediaPipeError). isMediaPipeReady is no dependency of the
\* analysis-interval effect.
MediaPipeInitOk ==
    /\ NoEffectDue
    /\ "video" \in mounted
    /\ mediaPipe = "loading"
    /\ mediaPipe' = "ready"
    /\ processingEffectDue' = TRUE
    /\ op' = <<"mediaPipeReady", "none">>
    /\ UNCHANGED mediaState
    /\ UNCHANGED <<questionHasBeenRead, aiIsSpeaking, isVideoReady,
                   lastFaceDetections, analysisInterval, processingInterval,
                   inFlight, intervalEffectDue, elapsed, periodSamples, periodErrors,
                   wasPaused, lastTick>>

MediaPipeInitFail_AutoRetry ==
    /\ NoEffectDue
    /\ "video" \in mounted
    /\ mediaPipe = "loading"
    /\ mediaPipe' = "loading"
    /\ op' = <<"mediaPipeFailed", "none">>
    /\ UNCHANGED mediaState
    /\ UNCHANGED <<questionHasBeenRead, aiIsSpeaking, isVideoReady,
                   lastFaceDetections, analysisInterval, processingInterval,
                   inFlight, intervalEffectDue, processingEffectDue, elapsed,
                   periodSamples, periodErrors, wasPaused, lastTick>>

MediaPipeInitFail ==
    /\ NoEffectDue
    /\ "video" \in mounted
    /\ mediaPipe = "loading"
    /\ mediaPipe' = "failed"
    /\ op' = <<"mediaPipeFailed", "none">>
    /\ UNCHANGED mediaState
    /\ UNCHANGED <<questionHasBeenRead, aiIsSpeaking, isVideoReady,
                   lastFaceDetections, analysisInterval, processingInterval,
                   inFlight, intervalEffectDue, processingEffectDue, elapsed,
                   periodSamples, periodErrors, wasPaused, lastTick>>

\* The "Retry MediaPipe" button, rendered while mediaPipeError is set: it calls
\* loadMediaPipeScripts again.
RetryMediaPipe ==
    /\ NoEffectDue
    /\ "video" \in mounted
    /\ VideoRendered
    /\ mediaPipe = "failed"
    /\ mediaPipe' = "loading"
    /\ op' = <<"retryMediaPipe", "none">>
    /\ UNCHANGED mediaState
    /\ UNCHANGED <<questionHasBeenRead, aiIsSpeaking, isVideoReady,
                   lastFaceDetections, analysisInterval, processingInterval,
                   inFlight, intervalEffectDue, processingEffectDue, elapsed,
                   periodSamples, periodErrors, wasPaused, lastTick>>

\* processMediaPipeFrame, a tick of the 125 ms interval: it awaits
\* faceDetection.send({image: video}).
ProcessTick ==
    /\ NoEffectDue
    /\ processingInterval
    /\ VideoRendered
    /\ inFlight < MaxInFlight
    /\ inFlight' = inFlight + 1
    /\ op' = <<"processMediaPipeFrame", "none">>
    /\ UNCHANGED mediaState
    /\ UNCHANGED <<questionHasBeenRead, aiIsSpeaking, isVideoReady, mediaPipe,
                   lastFaceDetections, analysisInterval, processingInterval,
                   intervalEffectDue, processingEffectDue, elapsed,
                   periodSamples, periodErrors, wasPaused, lastTick>>

\* A send() finishes: onResults has run handleMediaPipeResults with n detections,
\* which stores them while the component shows its video and canvas.
SendComplete(n) ==
    /\ NoEffectDue
    /\ inFlight > 0
    /\ inFlight' = inFlight - 1
    /\ lastFaceDetections' = IF "video" \in mounted /\ VideoRendered
                             THEN n ELSE lastFaceDetections
    /\ op' = <<"handleMediaPipeResults", "none">>
    /\ UNCHANGED mediaState
    /\ UNCHANGED <<questionHasBeenRead, aiIsSpeaking, isVideoReady, mediaPipe,
                   analysisInterval, processingInterval, intervalEffectDue,
                   processingEffectDue, elapsed, periodSamples, periodErrors, wasPaused,
                   lastTick>>

\* analyzeFrame as the interval holds it: cl is the render it was made in.
\* It emits nothing when not active or the video is not ready, a MediaPipe sample
\* when the detector was ready and had reported a face, a fallback sample otherwise.
AnalyzeFrame_WaitForDetector(cl) ==
    IF ~cl.active \/ ~cl.videoReady \/ ~cl.ready
    THEN [emitted |-> FALSE, real |-> FALSE]
    ELSE [emitted |-> TRUE, real |-> cl.det]

AnalyzeFrame(cl) ==
    IF ~cl.active \/ ~cl.videoReady
    THEN [emitted |-> FALSE, real |-> FALSE]
    ELSE IF cl.ready /\ cl.det
         THEN [emitted |-> TRUE, real |-> TRUE]
         ELSE [emitted |-> TRUE, real |-> FALSE]

\* The try / catch of analyzeFrame: an error thrown past the first return is
\* logged and nothing is handed to onAnalysisUpdate.
TickResult_EmitOnError(cl, threw) == AnalyzeFrame(cl)

TickResult(cl, threw) ==
    IF threw /\ cl.active /\ cl.videoReady
    THEN [emitted |-> FALSE, real |-> FALSE]
    ELSE AnalyzeFrame(cl)

\* A second passes while the analysis interval is live and not yet due.
ClockTick ==
    /\ NoEffectDue
    /\ analysisInterval.on
    /\ analysisInterval.due > 0
    /\ elapsed < MaxElapsed
    /\ analysisInterval' = [analysisInterval EXCEPT !.due = @ - 1]
    /\ elapsed' = elapsed + 1
    /\ op' = <<"clock", "none">>
    /\ UNCHANGED mediaState
    /\ UNCHANGED <<questionHasBeenRead, aiIsSpeaking, isVideoReady, mediaPipe,
                   lastFaceDetections, processingInterval, inFlight,
                   intervalEffectDue, processingEffectDue, periodSamples, periodErrors,
                   wasPaused, lastTick>>

\* The analysis interval fires: analyzeFrame runs and hands its sample to
\* onAnalysisUpdate.
AnalysisTick ==
    /\ NoEffectDue
    /\ analysisInterval.on
    /\ analysisInterval.due = 0
    /\ \E threw \in BOOLEAN :
          /\ threw => periodErrors < MaxErrors
          /\ LET r == TickResult(analysisInterval, threw)
             IN  /\ lastTick' = [fired |-> TRUE, active |-> videoAnalysisActive,
                                 mpReady |-> (mediaPipe = "ready"),
                                 emitted |-> r.emitted, real |-> r.real,
                                 threw |-> threw]
                 /\ periodSamples' = IF r.emitted THEN periodSamples + 1
                                     ELSE periodSamples
          /\ periodErrors' = IF threw THEN periodErrors + 1 ELSE periodErrors
    /\ analysisInterval' = [analysisInterval EXCEPT !.due = analysisInterval.period]
    /\ op' = <<"analyzeFrame", "none">>
    /\ UNCHANGED mediaState
    /\ UNCHANGED <<questionHasBeenRead, aiIsSpeaking, isVideoReady, mediaPipe,
                   lastFaceDetections, processingInterval, inFlight,
                   intervalEffectDue, processingEffectDue, elapsed, wasPaused>>

NoFrame == [kind |-> "none"]

NoSample == [kind |-> "none"]

NoAnalysis == [by |-> "none"]

NoVideoData == [defined |-> FALSE, items |-> <<>>]

InitWindowVars ==
    /\ currentQuestion = 0
    /\ isLoading = FALSE
    /\ videoAnalysisData = <<>>
    /\ evaluating = {}
    /\ evaluationResults = <<>>
    /\ resetEffectDue = FALSE
    /\ now = 0

InitScoreVars ==
    /\ frame = NoFrame
    /\ sample = NoSample
    /\ videoData = NoVideoData
    /\ processed = NoAnalysis

\* TextToSpeech before it speaks, and no standalone VideoAnalysis mounted.
NoSpeech == [text |-> TRUE, isPlaying |-> FALSE, isGenerating |-> FALSE,
             audio |-> "none", timer |-> FALSE]

NoStandalone == [mounted |-> FALSE, showPreview |-> FALSE, pending |-> 0,
                 stale |-> 0, streamRef |-> None, hasPermissions |-> FALSE,
                 isInitialized |-> FALSE, error |-> FALSE, open |-> {},
                 delivered |-> 0]

InitComponentVars ==
    /\ textToSpeech = NoSpeech
    /\ videoAnalysis = NoStandalone

Init ==
    InitMedia /\ InitSamplerVars /\ InitWindowVars /\ InitScoreVars
        /\ InitComponentVars

Next ==
    \/ (\E c \in Consumers : Mount(c)) /\ UNCHANGED samplerVars /\ UNCHANGED pageVars
    \/ (\E c \in Consumers : RequestEffect(c)) /\ UNCHANGED samplerVars /\ UNCHANGED pageVars
    \/ (\E c \in Consumers : RetryClick(c)) /\ UNCHANGED samplerVars /\ UNCHANGED pageVars
    \/ GetUserMediaResolve /\ UNCHANGED samplerVars /\ UNCHANGED pageVars
    \/ (\E n \in RejectNames : GetUserMediaReject(n)) /\ UNCHANGED samplerVars /\ UNCHANGED pageVars
    \/ (\E c \in Consumers : ConsumerStop(c)) /\ UNCHANGED samplerVars /\ UNCHANGED pageVars
    \/ Unmount /\ UNCHANGED pageVars
    \/ VideoReady /\ UNCHANGED pageVars
    \/ handleQuestionStart /\ UNCHANGED pageVars
    \/ handleQuestionEnd /\ UNCHANGED pageVars
    \/ handleQuestionError /\ UNCHANGED pageVars
    \/ QuestionChange /\ UNCHANGED pageVars
    \/ AnalysisIntervalEffect /\ UNCHANGED pageVars
    \/ ProcessingIntervalEffect /\ UNCHANGED pageVars

Spec == Init /\ [][Next]_vars

\* The sampler with the capture granted: VideoAnalysisShared is mounted and the
\* provider holds stream 1.
CaptureGranted ==
    /\ streamRef = 1
    /\ stream = 1
    /\ hasPermissions = TRUE
    /\ isInitializing = FALSE
    /\ error = NoError
    /\ pending = 0
    /\ open = {1}
    /\ stopCount = [s \in Streams |-> 0]
    /\ hwRequests = 1
    /\ providerMounted = TRUE
    /\ mounted = {"video"}
    /\ effectDue = {}
    /\ op = <<"effect", "video">>

InitSampler ==
    CaptureGranted /\ InitSamplerVars /\ InitWindowVars /\ InitScoreVars
        /\ InitComponentVars

NextSampler ==
    \/ VideoReady /\ UNCHANGED pageVars
    \/ handleQuestionStart /\ UNCHANGED pageVars
    \/ handleQuestionEnd /\ UNCHANGED pageVars
    \/ handleQuestionError /\ UNCHANGED pageVars
    \/ QuestionChange /\ UNCHANGED pageVars
    \/ AnalysisIntervalEffect /\ UNCHANGED pageVars
    \/ ProcessingIntervalEffect /\ UNCHANGED pageVars
    \/ MediaPipeInitOk /\ UNCHANGED pageVars
    \/ MediaPipeInitFail /\ UNCHANGED pageVars
    \/ RetryMediaPipe /\ UNCHANGED pageVars
    \/ ProcessTick /\ UNCHANGED pageVars
    \/ \E n \in 0..MaxDetections : SendComplete(n) /\ UNCHANGED pageVars
    \/ ClockTick /\ UNCHANGED pageVars
    \/ AnalysisTick /\ UNCHANGED pageVars
    \/ Unmount /\ UNCHANGED pageVars

SpecSampler == InitSampler /\ [][NextSampler]_vars

-----------------------------------------------------------------------------
\* The scores of one sample. Fractions of the frame (positions, sizes,
\* confidences, movements) are counted in thousandths.

Min(a, b) == IF a < b THEN a ELSE b

Max(a, b) == IF a > b THEN a ELSE b

Abs(a) == IF a < 0 THEN 0 - a ELSE a

\* Math.round(num / den) for den > 0: the nearest integer, halves upwards.
Round(num, den) == (2 * num + den) \div (2 * den)

\* Math.sqrt of a perfect square, found by bisection between lo and hi.
RECURSIVE SqrtBetween(_, _, _)
SqrtBetween(n, lo, hi) ==
    IF lo >= hi THEN lo
    ELSE LET mid == (lo + hi + 1) \div 2
         IN  IF mid * mid <= n THEN SqrtBetween(n, mid, hi)
             ELSE SqrtBetween(n, lo, mid - 1)

Sqrt(n) == SqrtBetween(n, 0, 2000)

\* array.slice(-n)
SliceLast(seq, n) ==
    IF Len(seq) <= n THEN seq ELSE SubSeq(seq, Len(seq) - n + 1, Len(seq))

RECURSIVE SumSeq(_)
SumSeq(seq) == IF seq = <<>> THEN 0 ELSE Head(seq) + SumSeq(Tail(seq))

\* analyzeAudioQuality of VideoAnalysisShared: audio.analyser tells whether
\* analyserRef is set, audio.volume and audio.clarity are the RMS and the
\* mid-range mean of the byte frequency data (0..255).
analyzeAudioQuality(audio) ==
    IF ~audio.analyser
    THEN [score |-> 5, volumeLevel |-> 5, clarity |-> 5, consistency |-> 5]
    ELSE LET volumeLevel20 == Min(200, Max(0, audio.volume))
             clarityScore20 == Min(200, Max(0, audio.clarity))
             consistency == Min(10, IF volumeLevel20 > 40 THEN 8 ELSE 4)
         IN  [score |-> Round(volumeLevel20 + clarityScore20 + 20 * consistency, 60),
              volumeLevel |-> Round(volumeLevel20, 20),
              clarity |-> Round(clarityScore20, 20),
              consistency |-> consistency]

\* The total movement along a list of positions: the sum of the distances
\* between consecutive ones.
RECURSIVE totalMovement(_)
totalMovement(positions) ==
    IF Len(positions) < 2 THEN 0
    ELSE LET deltaX == Abs(positions[2].x - positions[1].x)
             deltaY == Abs(positions[2].y - positions[1].y)
         IN  Sqrt(deltaX * deltaX + deltaY * deltaY) + totalMovement(Tail(positions))

\* analyzeWithMediaPipe, the movement part: headMovement is total / steps.
MovementOf(faceHistory) ==
    IF Len(faceHistory) > 3
    THEN LET recentHistory == SliceLast(faceHistory, 10)
         IN  [total |-> totalMovement(recentHistory),
              steps |-> Len(recentHistory) - 1]
    ELSE [total |-> 0, steps |-> 1]

\* The posture score before it is rounded and capped.
PostureSum_BonusTwo(faceVisible, faceCentered, appropriateDistance, score, hAlign) ==
    (IF faceVisible THEN 3 ELSE 0) + (IF faceCentered THEN 3 ELSE 0)
      + (IF appropriateDistance THEN 2 ELSE 0) + (IF score > 800 THEN 2 ELSE 0)

PostureSum_HeavierWeights(faceVisible, faceCentered, appropriateDistance, score, hAlign) ==
    (IF faceVisible THEN 5 ELSE 0) + (IF faceCentered THEN 5 ELSE 0)
      + (IF appropriateDistance THEN 2 ELSE 0) + (IF score > 800 THEN 1 ELSE 0)
      + (IF hAlign < 100 THEN 1 ELSE 0)

PostureSum(faceVisible, faceCentered, appropriateDistance, score, hAlign) ==
    (IF faceVisible THEN 3 ELSE 0) + (IF faceCentered THEN 3 ELSE 0)
      + (IF appropriateDistance THEN 2 ELSE 0) + (IF score > 800 THEN 1 ELSE 0)
      + (IF hAlign < 100 THEN 1 ELSE 0)

\* analyzeWithMediaPipe past its early returns: primaryFace is
\* lastFaceDetections[0] with its bounding box, faceHistory the positions held.
analyzeWithMediaPipe(primaryFace, faceHistory, audio, timestamp) ==
    LET faceSize == primaryFace.width * primaryFace.height
        horizontalAlignment == Abs(primaryFace.xCenter - 500)
        verticalAlignment == Abs(primaryFace.yCenter - 400)
        faceVisible == primaryFace.score > 600
        faceCentered == horizontalAlignment < 200 /\ verticalAlignment < 200
        appropriateDistance == faceSize > 50000 /\ faceSize < 400000
        postureScore == PostureSum(faceVisible, faceCentered, appropriateDistance,
                                   primaryFace.score, horizontalAlignment)
        mv == MovementOf(faceHistory)
        den == 1000 * mv.steps
        fidgetingLevel == Min(10 * den, 25 * mv.total)
        stability == Max(0, 10 * den - 30 * mv.total)
        movementScore == Round(Max(0, 10 * den - fidgetingLevel), den)
        audioAnalysis == analyzeAudioQuality(audio)
    IN  [kind |-> "mediapipe",
         posture |-> [score |-> Min(10, postureScore),
                      faceCentered |-> faceCentered,
                      faceVisible |-> faceVisible,
                      appropriateDistance |-> appropriateDistance,
                      faceSize |-> Round(faceSize, 1000),
                      horizontalAlignment |-> horizontalAlignment,
                      verticalAlignment |-> verticalAlignment],
         movement |-> [score |-> movementScore,
                       fidgetingLevel |-> Round(fidgetingLevel, den),
                       stability |-> Round(stability, den),
                       headMovement |-> Round(mv.total, mv.steps)],
         audioQuality |-> audioAnalysis,
         overall |-> [score |-> Round(postureScore + movementScore
                                        + audioAnalysis.score, 3),
                      timestamp |-> timestamp],
         faceDetection |-> [detectionCount |-> 1,
                            confidence |-> primaryFace.score,
                            realMediaPipe |-> TRUE]]

\* analyzeFrame, the fallback analysis.
fallbackAnalysis(audio, timestamp) ==
    LET audioAnalysis == analyzeAudioQuality(audio)
    IN  [kind |-> "fallback",
         posture |-> [score |-> 5, faceCentered |-> FALSE, faceVisible |-> FALSE,
                      appropriateDistance |-> TRUE, faceSize |-> 0,
                      horizontalAlignment |-> 500, verticalAlignment |-> 500],
         movement |-> [score |-> 5, fidgetingLevel |-> 3, stability |-> 5,
                       headMovement |-> 0],
         audioQuality |-> audioAnalysis,
         overall |-> [score |-> Round(5 + 5 + audioAnalysis.score, 3),
                      timestamp |-> timestamp],
         faceDetection |-> [detectionCount |-> 0, confidence |-> 0,
                            realMediaPipe |-> FALSE]]

\* The standalone VideoAnalysis component (pixel heuristic).
\* analyzePosture: skinRatio in thousandths, avgBrightness in 0..255.
analyzePosture(skinRatio, avgBrightness) ==
    LET faceVisible == skinRatio > 100
        faceCentered == skinRatio > 50
        appropriateDistance == avgBrightness > 50 /\ avgBrightness < 200
        score == (IF faceVisible THEN 4 ELSE 0) + (IF faceCentered THEN 3 ELSE 0)
                   + (IF appropriateDistance THEN 3 ELSE 0)
    IN  [score |-> Min(score, 10), faceCentered |-> faceCentered,
         faceVisible |-> faceVisible, appropriateDistance |-> appropriateDistance]

\* analyzeMovement: diff.previous tells whether a previous frame is held,
\* diff.avgDifference is in 0..765 and diff.changeRatio in thousandths.
analyzeMovement(diff) ==
    IF ~diff.previous
    THEN [score |-> 8, fidgetingLevel |-> 0, stability |-> 10]
    ELSE LET stability10 == Max(0, 100 - diff.avgDifference)
             fidgetingLevel10 == Min(100, diff.changeRatio)
             score10 == Max(0, 100 - fidgetingLevel10)
         IN  [score |-> Round(score10, 10),
              fidgetingLevel |-> Round(fidgetingLevel10, 10),
              stability |-> Round(stability10, 10)]

\* analyzeAudioQuality of VideoAnalysis: volume and clarity are means of the
\* byte frequency data, divided by 25.6.
analyzeAudioQualityHeuristic(audio) ==
    IF ~audio.analyser
    THEN [score |-> 5, volumeLevel |-> 5, clarity |-> 5, consistency |-> 5]
    ELSE LET volumeLevel256 == Min(2560, Max(0, 10 * audio.volume))
             clarityScore256 == Min(2560, Max(0, 10 * audio.clarity))
             consistency == Min(10, IF volumeLevel256 > 512 THEN 8 ELSE 4)
         IN  [score |-> Round(volumeLevel256 + clarityScore256
                                + 256 * consistency, 768),
              volumeLevel |-> Round(volumeLevel256, 256),
              clarity |-> Round(clarityScore256, 256),
              consistency |-> consistency]

\* analyzeFrame of VideoAnalysis past its early returns.
heuristicAnalysis(skinRatio, avgBrightness, diff, audio, timestamp) ==
    LET postureAnalysis == analyzePosture(skinRatio, avgBrightness)
        movementAnalysis == analyzeMovement(diff)
        audioAnalysis == analyzeAudioQualityHeuristic(audio)
    IN  [kind |-> "heuristic",
         posture |-> postureAnalysis,
         movement |-> movementAnalysis,
         audioQuality |-> audioAnalysis,
         overall |-> [score |-> Round(postureAnalysis.score + movementAnalysis.score
                                        + audioAnalysis.score, 3),
                      timestamp |-> timestamp]]

-----------------------------------------------------------------------------
\* The scoring of single frames, as a specification of its own: each action
\* analyses one frame drawn from the inputs below.

MaxHistory == 5

ScoreLevels == {600, 700, 900}
XCenters == {500, 650, 850}
YCenters == {400, 700}
Sizes == {200, 700}
Faces == [score : ScoreLevels, xCenter : XCenters, yCenter : YCenters,
          width : Sizes, height : Sizes]

Positions == {[x |-> 500, y |-> 400], [x |-> 800, y |-> 800]}
Histories == UNION {[1..n -> Positions] : n \in 0..MaxHistory}

AudioInputs == {[analyser |-> FALSE, volume |-> 0, clarity |-> 0],
                [analyser |-> TRUE, volume |-> 0, clarity |-> 0],
                [analyser |-> TRUE, volume |-> 70, clarity |-> 45],
                [analyser |-> TRUE, volume |-> 255, clarity |-> 255]}

SkinRatios == {0, 80, 300}
Brightnesses == {30, 120, 230}
FrameDiffs == {[previous |-> FALSE, avgDifference |-> 0, changeRatio |-> 0],
               [previous |-> TRUE, avgDifference |-> 0, changeRatio |-> 0],
               [previous |-> TRUE, avgDifference |-> 35, changeRatio |-> 45],
               [previous |-> TRUE, avgDifference |-> 765, changeRatio |-> 1000]}

Frames ==
    [kind : {"mediapipe"}, primaryFace : Faces, faceHistory : Histories,
     audio : AudioInputs]
    \cup [kind : {"fallback"}, audio : AudioInputs]
    \cup [kind : {"heuristic"}, skinRatio : SkinRatios,
          avgBrightness : Brightnesses, diff : FrameDiffs, audio : AudioInputs]

InitAnalysis ==
    /\ CaptureGranted /\ InitSamplerVars /\ InitWindowVars
    /\ frame \in Frames
    /\ sample = NoSample
    /\ videoData = NoVideoData
    /\ processed = NoAnalysis
    /\ InitComponentVars

\* analyzeFrame with the detector ready and a face reported.
EmitMediaPipeAnalysis ==
    /\ frame.kind = "mediapipe"
    /\ sample' = analyzeWithMediaPipe(frame.primaryFace, frame.faceHistory,
                                      frame.audio, 0)
    /\ UNCHANGED <<mediaVars, samplerVars, windowVars, frame, videoData, processed, componentVars>>

\* analyzeFrame with no analysis from the detector.
EmitFallbackAnalysis ==
    /\ frame.kind = "fallback"
    /\ sample' = fallbackAnalysis(frame.audio, 0)
    /\ UNCHANGED <<mediaVars, samplerVars, windowVars, frame, videoData, processed, componentVars>>

\* analyzeFrame of the standalone VideoAnalysis component.
EmitHeuristicAnalysis ==
    /\ frame.kind = "heuristic"
    /\ sample' = heuristicAnalysis(frame.skinRatio, frame.avgBrightness,
                                   frame.diff, frame.audio, 0)
    /\ UNCHANGED <<mediaVars, samplerVars, windowVars, frame, videoData, processed, componentVars>>

NextAnalysis ==
    \/ EmitMediaPipeAnalysis
    \/ EmitFallbackAnalysis
    \/ EmitHeuristicAnalysis

SpecAnalysis == InitAnalysis /\ [][NextAnalysis]_vars

-----------------------------------------------------------------------------
\* The aggregation of a window of samples: processVideoAnalysisData of
\* utils/videoAnalysisProcessor.ts and processVideoAnalysisDataCompatible of
\* VideoAnalysisResults.tsx. A mean is kept as the fraction num / den.

\* calculateAverage
calculateAverage_SkipLast(scores) ==
    IF Len(scores) = 0 THEN [num |-> 0, den |-> 1]
    ELSE [num |-> SumSeq(SubSeq(scores, 1, Len(scores) - 1)), den |-> Len(scores)]

calculateAverage(scores) ==
    IF Len(scores) = 0 THEN [num |-> 0, den |-> 1]
    ELSE [num |-> SumSeq(scores), den |-> Len(scores)]

\* videoData.filter(pred).length, for pred given as the list of its values.
CountTrue(flags) == Cardinality({i \in 1..Len(flags) : flags[i]})

\* calculatePresenceScore
calculatePresenceScore(items) ==
    LET faceVisibleCount ==
            CountTrue([i \in 1..Len(items) |-> items[i].posture.faceVisible])
        faceCenteredCount ==
            CountTrue([i \in 1..Len(items) |-> items[i].posture.faceCentered])
        appropriateDistanceCount ==
            CountTrue([i \in 1..Len(items) |-> items[i].posture.appropriateDistance])
    IN  Round(10 * (faceVisibleCount + faceCenteredCount + appropriateDistanceCount),
              Len(items) * 3)

\* calculateProfessionalismScore
calculateProfessionalismScore(items) ==
    LET avgPosture ==
            calculateAverage([i \in 1..Len(items) |-> items[i].posture.score])
        avgStability ==
            calculateAverage([i \in 1..Len(items) |-> items[i].movement.stability])
        avgAudioConsistency ==
            calculateAverage([i \in 1..Len(items) |-> items[i].audioQuality.consistency])
    IN  Round(avgPosture.num + avgStability.num + avgAudioConsistency.num,
              3 * Len(items))

\* n * n times the variance of a list of n numbers.
ScaledVariance(scores) ==
    Len(scores) * SumSeq([i \in 1..Len(scores) |-> scores[i] * scores[i]])
      - SumSeq(scores) * SumSeq(scores)

\* calculateConsistencyScore: Math.round(Math.max(0, 10 - 2 * sd)), sd the
\* square root of the variance of the overall scores. The rounded value is
\* the largest k in 0..10 with 2 * sd <= 10.5 - k, that is with
\* 16 * n * n * variance <= (n * (21 - 2k))^2, and 0 when there is none.
calculateConsistencyScore(items) ==
    LET overallScores == [i \in 1..Len(items) |-> items[i].overall.score]
        n == Len(overallScores)
        v == ScaledVariance(overallScores)
        ks == {k \in 0..10 : 16 * v <= (n * (21 - 2 * k)) * (n * (21 - 2 * k))}
    IN  IF ks = {} THEN 0 ELSE CHOOSE k \in ks : \A j \in ks : j <= k

\* The weights of overallBehavioralScore, in hundredths.
overallWeights_PresenceQuarter ==
    [posture |-> 25, movement |-> 25, audio |-> 20, presence |-> 25,
     professionalism |-> 15]

overallWeights ==
    [posture |-> 25, movement |-> 25, audio |-> 20, presence |-> 15,
     professionalism |-> 15]

\* createEmptyAnalysis
createEmptyAnalysis_NeutralFive ==
    [by |-> "processVideoAnalysisData",
     postureScore |-> 5, stabilityScore |-> 5, voiceQualityScore |-> 5,
     presenceScore |-> 5, professionalismScore |-> 5,
     overallBehavioralScore |-> 5,
     analytics |-> [totalMeasures |-> 0, analysisTimeMinutes |-> 0,
                    consistencyScore |-> 0, strengths |-> {},
                    improvementAreas |-> {"noData"}]]

createEmptyAnalysis ==
    [by |-> "processVideoAnalysisData",
     postureScore |-> 0, stabilityScore |-> 0, voiceQualityScore |-> 0,
     presenceScore |-> 0, professionalismScore |-> 0,
     overallBehavioralScore |-> 0,
     analytics |-> [totalMeasures |-> 0, analysisTimeMinutes |-> 0,
                    consistencyScore |-> 0, strengths |-> {},
                    improvementAreas |-> {"noData"}]]

\* The three areas generateAnalytics and processVideoAnalysisDataCompatible put
\* in their lists; a list of messages is kept as the set of what they are about.
Areas == {"posture", "movement", "audio"}

\* generateAnalytics: analysisTimeMinutes, timestamps being in milliseconds.
analysisTimeMinutes(items) ==
    Round(items[Len(items)].overall.timestamp - items[1].overall.timestamp, 60000)

\* generateAnalytics: the lists, from the unrounded averages.
generateAnalytics(items, consistencyScore) ==
    LET avgScores ==
            [posture |-> calculateAverage([i \in 1..Len(items) |-> items[i].posture.score]),
             movement |-> calculateAverage([i \in 1..Len(items) |-> items[i].movement.score]),
             audio |-> calculateAverage([i \in 1..Len(items) |-> items[i].audioQuality.score])]
    IN  [totalMeasures |-> Len(items),
         analysisTimeMinutes |-> analysisTimeMinutes(items),
         consistencyScore |-> consistencyScore,
         strengths |-> {a \in Areas : avgScores[a].num >= 8 * avgScores[a].den},
         improvementAreas |-> {a \in Areas : avgScores[a].num < 6 * avgScores[a].den}]

\* getTrend of calculateTrendAnalysis, first and second being fractions.
getTrend(first, second) ==
    LET diff == second.num * first.den - first.num * second.den
    IN  IF 2 * Abs(diff) < first.den * second.den THEN "stable"
        ELSE IF diff > 0 THEN "improving" ELSE "declining"

\* (a + b + c) / 3 of three fractions of one denominator.
MeanOfThree(a, b, c) == [num |-> a.num + b.num + c.num, den |-> 3 * a.den]

\* calculateTrendAnalysis
calculateTrendAnalysis(items) ==
    IF Len(items) < 3
    THEN [by |-> "calculateTrendAnalysis", postureTrend |-> "stable",
          movementTrend |-> "stable", audioTrend |-> "stable",
          overallTrend |-> "stable"]
    ELSE LET half == Len(items) \div 2
             firstHalf == SubSeq(items, 1, half)
             secondHalf == SubSeq(items, half + 1, Len(items))
             avgOf(h) ==
                 [posture |-> calculateAverage([i \in 1..Len(h) |-> h[i].posture.score]),
                  movement |-> calculateAverage([i \in 1..Len(h) |-> h[i].movement.score]),
                  audio |-> calculateAverage([i \in 1..Len(h) |-> h[i].audioQuality.score])]
             firstHalfAvg == avgOf(firstHalf)
             secondHalfAvg == avgOf(secondHalf)
         IN  [by |-> "calculateTrendAnalysis",
              postureTrend |-> getTrend(firstHalfAvg.posture, secondHalfAvg.posture),
              movementTrend |-> getTrend(firstHalfAvg.movement, secondHalfAvg.movement),
              audioTrend |-> getTrend(firstHalfAvg.audio, secondHalfAvg.audio),
              overallTrend |->
                  getTrend(MeanOfThree(firstHalfAvg.posture, firstHalfAvg.movement,
                                       firstHalfAvg.audio),
                           MeanOfThree(secondHalfAvg.posture, secondHalfAvg.movement,
                                       secondHalfAvg.audio))]

\* processVideoAnalysisData: arg.defined is false for a missing argument.
processVideoAnalysisData(arg) ==
    IF ~arg.defined \/ Len(arg.items) = 0
    THEN createEmptyAnalysis
    ELSE LET items == arg.items
             n == Len(items)
             avgPosture ==
                 calculateAverage([i \in 1..n |-> items[i].posture.score])
             avgMovement ==
                 calculateAverage([i \in 1..n |-> items[i].movement.score])
             avgAudio ==
                 calculateAverage([i \in 1..n |-> items[i].audioQuality.score])
             presenceScore == calculatePresenceScore(items)
             professionalismScore == calculateProfessionalismScore(items)
             consistencyScore == calculateConsistencyScore(items)
             w == overallWeights
         IN  [by |-> "processVideoAnalysisData",
              postureScore |-> Round(avgPosture.num, avgPosture.den),
              stabilityScore |-> Round(avgMovement.num, avgMovement.den),
              voiceQualityScore |-> Round(avgAudio.num, avgAudio.den),
              presenceScore |-> presenceScore,
              professionalismScore |-> professionalismScore,
              overallBehavioralScore |->
                  Round(w.posture * avgPosture.num + w.movement * avgMovement.num
                          + w.audio * avgAudio.num
                          + w.presence * n * presenceScore
                          + w.professionalism * n * professionalismScore,
                        100 * n),
              analytics |-> generateAnalytics(items, consistencyScore)]

\* d.faceDetection?.confidence, absent from the samples of the heuristic.
ConfidenceOf(d) ==
    IF "faceDetection" \in DOMAIN d THEN d.faceDetection.confidence ELSE 0

\* The per-sample presence summed by processVideoAnalysisDataCompatible.
PresenceOf(d) ==
    Min(10, (IF d.posture.faceVisible THEN 3 ELSE 0)
              + (IF d.posture.faceCentered THEN 3 ELSE 0)
              + (IF d.posture.appropriateDistance THEN 2 ELSE 0)
              + (IF ConfidenceOf(d) > 700 THEN 2 ELSE 0))

\* analytics.consistencyScore of processVideoAnalysisDataCompatible.
CompatibleConsistency(postureScore, stabilityScore, voiceQualityScore) ==
    Round(20 - (Abs(postureScore - stabilityScore)
                  + Abs(stabilityScore - voiceQualityScore)), 2)

\* improvementTrend of processVideoAnalysisDataCompatible: the means of the
\* overall scores of the two halves are compared.
improvementTrend(items) ==
    IF Len(items) > 2
    THEN LET half == Len(items) \div 2
             firstHalf == SubSeq(items, 1, half)
             secondHalf == SubSeq(items, half + 1, Len(items))
             firstSum == SumSeq([i \in 1..Len(firstHalf) |-> firstHalf[i].overall.score])
             secondSum == SumSeq([i \in 1..Len(secondHalf) |-> secondHalf[i].overall.score])
             both == Len(firstHalf) * Len(secondHalf)
         IN  IF 2 * secondSum * Len(firstHalf) > 2 * firstSum * Len(secondHalf) + both
             THEN "improving"
             ELSE IF 2 * secondSum * Len(firstHalf) < 2 * firstSum * Len(secondHalf) - both
                  THEN "declining"
                  ELSE "stable"
    ELSE "stable"

\* d.faceDetection?.realMediaPipe === true
RealMediaPipe(d) ==
    IF "faceDetection" \in DOMAIN d THEN d.faceDetection.realMediaPipe ELSE FALSE

\* strengths and improvementAreas of processVideoAnalysisDataCompatible.
CompatibleLists(score, hasMediaPipeData, trend) ==
    [strengths |->
         {a \in Areas : score[a] >= 8}
           \cup (IF hasMediaPipeData THEN {"faceDetection"} ELSE {})
           \cup (IF trend = "improving" THEN {"trend"} ELSE {}),
     improvementAreas |->
         {a \in Areas : score[a] <= 5}
           \cup (IF trend = "declining" THEN {"trend"} ELSE {})]

\* processVideoAnalysisDataCompatible
processVideoAnalysisDataCompatible(arg) ==
    IF ~arg.defined \/ Len(arg.items) = 0
    THEN [by |-> "processVideoAnalysisDataCompatible",
          postureScore |-> 0, stabilityScore |-> 0, voiceQualityScore |-> 0,
          presenceScore |-> 0, professionalismScore |-> 0,
          overallBehavioralScore |-> 0,
          analytics |-> [totalMeasures |-> 0, analysisTimeMinutes |-> 0,
                         consistencyScore |-> 0, improvementTrend |-> "stable",
                         strengths |-> {}, improvementAreas |-> {"noData"}]]
    ELSE LET items == arg.items
             n == Len(items)
             postureScore ==
                 Round(SumSeq([i \in 1..n |-> items[i].posture.score]), n)
             stabilityScore ==
                 Round(SumSeq([i \in 1..n |-> items[i].movement.score]), n)
             voiceQualityScore ==
                 Round(SumSeq([i \in 1..n |-> items[i].audioQuality.score]), n)
             presenceScore ==
                 Round(SumSeq([i \in 1..n |-> PresenceOf(items[i])]), n)
             timeSpan ==
                 IF n > 1
                 THEN items[n].overall.timestamp - items[1].overall.timestamp
                 ELSE 0
             hasMediaPipeData == \E i \in 1..n : RealMediaPipe(items[i])
             trend == improvementTrend(items)
             lists ==
                 CompatibleLists([posture |-> postureScore,
                                  movement |-> stabilityScore,
                                  audio |-> voiceQualityScore],
                                 hasMediaPipeData, trend)
         IN  [by |-> "processVideoAnalysisDataCompatible",
              postureScore |-> postureScore,
              stabilityScore |-> stabilityScore,
              voiceQualityScore |-> voiceQualityScore,
              presenceScore |-> presenceScore,
              professionalismScore |->
                  Round(postureScore + stabilityScore + presenceScore, 3),
              overallBehavioralScore |->
                  Round(postureScore + stabilityScore + voiceQualityScore
                          + presenceScore, 4),
              analytics |->
                  [totalMeasures |-> n,
                   analysisTimeMinutes |-> Round(timeSpan, 60000),
                   consistencyScore |->
                       CompatibleConsistency(postureScore, stabilityScore,
                                             voiceQualityScore),
                   improvementTrend |-> trend,
                   strengths |-> lists.strengths,
                   improvementAreas |-> lists.improvementAreas]]

-----------------------------------------------------------------------------
\* SpecAggregate: one window is aggregated, by either function.

MaxWindow == 3

NoAnalyser == [analyser |-> FALSE, volume |-> 0, clarity |-> 0]
MidVolume == [analyser |-> TRUE, volume |-> 70, clarity |-> 45]
FullVolume == [analyser |-> TRUE, volume |-> 255, clarity |-> 255]

StillHistory == [i \in 1..MaxHistory |-> [x |-> 500, y |-> 400]]
JumpingHistory ==
    [i \in 1..MaxHistory |->
        IF i % 2 = 1 THEN [x |-> 500, y |-> 400] ELSE [x |-> 800, y |-> 800]]

GoodFace == [score |-> 900, xCenter |-> 500, yCenter |-> 400,
             width |-> 200, height |-> 700]
OffCentreFace == [score |-> 900, xCenter |-> 650, yCenter |-> 400,
                  width |-> 200, height |-> 700]
PoorFace == [score |-> 600, xCenter |-> 500, yCenter |-> 700,
             width |-> 200, height |-> 200]

\* The samples a window is made of, as analyzeFrame emits them.
WindowSamples ==
    {fallbackAnalysis(NoAnalyser, 0),
     analyzeWithMediaPipe(GoodFace, StillHistory, FullVolume, 0),
     analyzeWithMediaPipe(GoodFace, JumpingHistory, MidVolume, 0),
     analyzeWithMediaPipe(OffCentreFace, StillHistory, NoAnalyser, 0),
     analyzeWithMediaPipe(PoorFace, JumpingHistory, NoAnalyser, 0)}

Windows == UNION {[1..n -> WindowSamples] : n \in 0..MaxWindow}

InitAggregate ==
    /\ CaptureGranted /\ InitSamplerVars /\ InitWindowVars
    /\ frame = NoFrame
    /\ sample = NoSample
    /\ videoData \in {NoVideoData} \cup {[defined |-> TRUE, items |-> w] : w \in Windows}
    /\ processed = NoAnalysis
    /\ InitComponentVars

\* utils/videoAnalysisProcessor.ts aggregates the window.
ProcessVideoAnalysisData ==
    /\ processed' = processVideoAnalysisData(videoData)
    /\ UNCHANGED <<mediaVars, samplerVars, windowVars, frame, sample, videoData, componentVars>>

\* VideoAnalysisResults.tsx aggregates the window.
ProcessVideoAnalysisDataCompatible ==
    /\ processed' = processVideoAnalysisDataCompatible(videoData)
    /\ UNCHANGED <<mediaVars, samplerVars, windowVars, frame, sample, videoData, componentVars>>

NextAggregate ==
    \/ ProcessVideoAnalysisData
    \/ ProcessVideoAnalysisDataCompatible

SpecAggregate == InitAggregate /\ [][NextAggregate]_vars

-----------------------------------------------------------------------------
\* SpecTrend: the trend of one window, by calculateTrendAnalysis or by
\* processVideoAnalysisDataCompatible.

MaxTrendWindow == 6

Silence == [analyser |-> TRUE, volume |-> 0, clarity |-> 0]

SideFace == [score |-> 700, xCenter |-> 850, yCenter |-> 400,
             width |-> 200, height |-> 200]

\* Three samples, of overall scores 5, 6 and 7; in each the mean of the posture,
\* movement and audio scores is the overall score.
TrendSamples ==
    {fallbackAnalysis(NoAnalyser, 0),
     analyzeWithMediaPipe(SideFace, StillHistory, NoAnalyser, 0),
     analyzeWithMediaPipe(GoodFace, StillHistory, Silence, 0)}

TrendWindows == UNION {[1..n -> TrendSamples] : n \in 0..MaxTrendWindow}

InitTrend ==
    /\ CaptureGranted /\ InitSamplerVars /\ InitWindowVars
    /\ frame = NoFrame
    /\ sample = NoSample
    /\ videoData \in {[defined |-> TRUE, items |-> w] : w \in TrendWindows}
    /\ processed = NoAnalysis
    /\ InitComponentVars

\* utils/videoAnalysisProcessor.ts gives the trends of the window.
CalculateTrendAnalysis ==
    /\ processed' = calculateTrendAnalysis(videoData.items)
    /\ UNCHANGED <<mediaVars, samplerVars, windowVars, frame, sample, videoData, componentVars>>

NextTrend ==
    \/ CalculateTrendAnalysis
    \/ ProcessVideoAnalysisDataCompatible

SpecTrend == InitTrend /\ [][NextTrend]_vars

-----------------------------------------------------------------------------
\* SpecWindow: the window of the question under way. InterviewPage collects
\* the samples of VideoAnalysisShared in videoAnalysisData, hands them over
\* with the answer, and HomePage stores them with the evaluation. Only the
\* order of events counts here: the interval fires without the clock and the
\* per-period counts of SpecSampler being advanced.

MaxQuestions == 2
MaxNow == 2

\* The analysis a tick hands to onAnalysisUpdate at time timestamp.
SampleOf(real, timestamp) ==
    IF real
    THEN analyzeWithMediaPipe(GoodFace, StillHistory, MidVolume, timestamp)
    ELSE fallbackAnalysis(MidVolume, timestamp)

\* A sample, with the question that was current when it was emitted.
EmittedUnder(q, analysis) == [question |-> q] @@ analysis

\* InterviewPage.handleVideoAnalysisUpdate: prev => [...prev, analysis]
handleVideoAnalysisUpdate_Reprocess(prev, analysis) ==
    Append([i \in 1..Len(prev) |->
               EmittedUnder(prev[i].question,
                            SampleOf(analysis.faceDetection.realMediaPipe,
                                     prev[i].overall.timestamp))],
           analysis)

handleVideoAnalysisUpdate(prev, analysis) == Append(prev, analysis)

\* The analysis interval fires: analyzeFrame runs, and what it emits reaches
\* InterviewPage.handleVideoAnalysisUpdate.
SampleTick ==
    /\ NoEffectDue
    /\ ~resetEffectDue
    /\ analysisInterval.on
    /\ now < MaxNow
    /\ \E threw \in BOOLEAN :
          LET r == TickResult(analysisInterval, threw)
              analysis == EmittedUnder(currentQuestion, SampleOf(r.real, now))
          IN  /\ videoAnalysisData' =
                     IF r.emitted
                     THEN handleVideoAnalysisUpdate(videoAnalysisData, analysis)
                     ELSE videoAnalysisData
              /\ now' = IF r.emitted THEN now + 1 ELSE now
    /\ op' = <<"analyzeFrame", "none">>
    /\ UNCHANGED <<mediaState, samplerVars>>
    /\ UNCHANGED <<currentQuestion, isLoading, evaluating, evaluationResults,
                   resetEffectDue, scoreVars, componentVars>>

\* InterviewPage.handleSubmit, from the submit button (shown once the question
\* has been read, enabled by canSubmit), with an answer typed or dictated:
\* the window goes to HomePage.onSubmitAnswer, which starts the evaluation,
\* and is cleared.
handleSubmit ==
    /\ NoEffectDue
    /\ ~resetEffectDue
    /\ providerMounted
    /\ questionHasBeenRead /\ ~aiIsSpeaking
    /\ ~isLoading
    /\ evaluating' = evaluating \cup {[question |-> currentQuestion,
                                       videoAnalysis |-> videoAnalysisData]}
    /\ isLoading' = TRUE
    /\ videoAnalysisData' = <<>>
    /\ UNCHANGED <<mediaVars, samplerVars, scoreVars, componentVars>>
    /\ UNCHANGED <<currentQuestion, evaluationResults, resetEffectDue, now>>

\* HomePage.onSubmitAnswer, /api/evaluate-answer answered with success: the
\* evaluation is stored with its window; then the next question, or the results
\* page in place of the interview page after the last one.
EvaluateOk(e) ==
    /\ ~resetEffectDue
    /\ e \in evaluating
    /\ evaluating' = evaluating \ {e}
    /\ evaluationResults' = Append(evaluationResults, e)
    /\ isLoading' = FALSE
    /\ IF e.question < MaxQuestions - 1
       THEN /\ NoEffectDue
            /\ currentQuestion' = currentQuestion + 1
            /\ resetEffectDue' = TRUE
            /\ UNCHANGED <<mediaVars, samplerVars, videoAnalysisData>>
       ELSE /\ Unmount
            /\ videoAnalysisData' = <<>>
            /\ UNCHANGED <<currentQuestion, resetEffectDue>>
    /\ UNCHANGED <<now, scoreVars, componentVars>>

\* HomePage.onSubmitAnswer, the evaluation failed or the request threw.
EvaluateFail_Advance(e) ==
    /\ NoEffectDue
    /\ ~resetEffectDue
    /\ e \in evaluating
    /\ e.question < MaxQuestions - 1
    /\ evaluating' = evaluating \ {e}
    /\ isLoading' = FALSE
    /\ currentQuestion' = currentQuestion + 1
    /\ resetEffectDue' = TRUE
    /\ UNCHANGED <<mediaVars, samplerVars, scoreVars, componentVars>>
    /\ UNCHANGED <<videoAnalysisData, evaluationResults, now>>

EvaluateFail(e) ==
    /\ NoEffectDue
    /\ ~resetEffectDue
    /\ e \in evaluating
    /\ evaluating' = evaluating \ {e}
    /\ isLoading' = FALSE
    /\ UNCHANGED <<mediaVars, samplerVars, scoreVars, componentVars>>
    /\ UNCHANGED <<currentQuestion, videoAnalysisData, evaluationResults,
                   resetEffectDue, now>>

\* InterviewPage's effect on [currentQuestion].
QuestionResetEffect_KeepWindow ==
    /\ resetEffectDue
    /\ QuestionChange
    /\ resetEffectDue' = FALSE
    /\ UNCHANGED <<currentQuestion, isLoading, videoAnalysisData, evaluating,
                   evaluationResults, now, scoreVars, componentVars>>

QuestionResetEffect ==
    /\ resetEffectDue
    /\ QuestionChange
    /\ videoAnalysisData' = <<>>
    /\ resetEffectDue' = FALSE
    /\ UNCHANGED <<currentQuestion, isLoading, evaluating, evaluationResults,
                   now, scoreVars, componentVars>>

\* The results page aggregates the window stored with evaluation i.
AggregateResult(i) ==
    /\ ~providerMounted
    /\ i \in 1..Len(evaluationResults)
    /\ Len(evaluationResults[i].videoAnalysis) > 0
    /\ videoData' = [defined |-> TRUE, items |-> evaluationResults[i].videoAnalysis]
    /\ processed' = processVideoAnalysisDataCompatible(videoData')
    /\ UNCHANGED <<mediaVars, samplerVars, windowVars, frame, sample, componentVars>>

\* The events of VideoAnalysisShared leave InterviewPage's window alone, and
\* wait for the reset effect as every event does.
NextWindow ==
    \/ ~resetEffectDue /\ VideoReady /\ UNCHANGED pageVars
    \/ ~resetEffectDue /\ handleQuestionStart /\ UNCHANGED pageVars
    \/ ~resetEffectDue /\ handleQuestionEnd /\ UNCHANGED pageVars
    \/ ~resetEffectDue /\ AnalysisIntervalEffect /\ UNCHANGED pageVars
    \/ ~resetEffectDue /\ ProcessingIntervalEffect /\ UNCHANGED pageVars
    \/ ~resetEffectDue /\ MediaPipeInitOk /\ UNCHANGED pageVars
    \/ ~resetEffectDue /\ ProcessTick /\ UNCHANGED pageVars
    \/ \E n \in 0..MaxDetections : ~resetEffectDue /\ SendComplete(n) /\ UNCHANGED pageVars
    \/ SampleTick
    \/ handleSubmit
    \/ \E e \in evaluating : EvaluateOk(e)
    \/ \E e \in evaluating : EvaluateFail(e)
    \/ QuestionResetEffect
    \/ \E i \in 1..MaxQuestions : AggregateResult(i)

SpecWindow == InitSampler /\ [][NextWindow]_vars

-----------------------------------------------------------------------------
\* SpecHistory: the face history over the questions of an interview. The video
\* and the detector are ready and frames are being sent to the detector; the
\* candidate sits in one place while a question lasts. Only the order of events
\* counts, as in SpecWindow.

\* prev.slice(-20)
HistoryKept == 20

\* Where the detector finds the face while question q is current.
PositionDuring(q) ==
    IF q % 2 = 0 THEN [x |-> 500, y |-> 400] ELSE [x |-> 800, y |-> 800]

\* A detection whose bounding box is centred on a position of the history.
PrimaryFaceOf(faceHistory) ==
    [score |-> 900, xCenter |-> faceHistory[Len(faceHistory)].x,
     yCenter |-> faceHistory[Len(faceHistory)].y, width |-> 200, height |-> 700]

\* handleMediaPipeResults: setFaceHistory(prev => [...prev.slice(-20), entry])
setFaceHistory(prev, entry) == Append(SliceLast(prev, HistoryKept), entry)

InitHistory ==
    /\ CaptureGranted
    /\ InitWindowVars
    /\ questionHasBeenRead = FALSE
    /\ aiIsSpeaking = FALSE
    /\ isVideoReady = TRUE
    /\ mediaPipe = "ready"
    /\ lastFaceDetections = 0
    /\ analysisInterval = NoInterval
    /\ processingInterval = TRUE
    /\ inFlight = 0
    /\ intervalEffectDue = FALSE
    /\ processingEffectDue = FALSE
    /\ elapsed = 0
    /\ periodSamples = 0
    /\ periodErrors = 0
    /\ wasPaused = FALSE
    /\ lastTick = NoTick
    /\ frame = [kind |-> "mediapipe", primaryFace |-> GoodFace,
                faceHistory |-> <<>>, audio |-> NoAnalyser]
    /\ sample = NoSample
    /\ videoData = NoVideoData
    /\ processed = NoAnalysis
    /\ InitComponentVars

\* handleMediaPipeResults, the onResults callback of the detector, with n
\* detections: they are stored, and the first of them is added to the face
\* history with the question it was recorded under.
HandleMediaPipeResults(n) ==
    /\ NoEffectDue
    /\ ~resetEffectDue
    /\ "video" \in mounted
    /\ VideoRendered
    /\ processingInterval
    /\ lastFaceDetections' = n
    /\ frame' =
          IF n > 0
          THEN LET entry == [question |-> currentQuestion]
                               @@ PositionDuring(currentQuestion)
                   history == setFaceHistory(frame.faceHistory, entry)
               IN  [frame EXCEPT !.faceHistory = history,
                                 !.primaryFace = PrimaryFaceOf(history)]
          ELSE frame
    /\ op' = <<"handleMediaPipeResults", "none">>
    /\ UNCHANGED mediaState
    /\ UNCHANGED <<questionHasBeenRead, aiIsSpeaking, isVideoReady, mediaPipe,
                   analysisInterval, processingInterval, inFlight,
                   intervalEffectDue, processingEffectDue, elapsed, periodSamples,
                   periodErrors, wasPaused, lastTick>>
    /\ UNCHANGED <<windowVars, sample, videoData, processed, componentVars>>

\* The analysis interval fires: analyzeFrame and analyzeWithMediaPipe work on
\* the detections and the face history of the render the interval was made in.
HistoryTick ==
    /\ NoEffectDue
    /\ ~resetEffectDue
    /\ analysisInterval.on
    /\ LET r == AnalyzeFrame(analysisInterval)
           held == analysisInterval.faceHistory
       IN  sample' =
              IF ~r.emitted THEN sample
              ELSE EmittedUnder(currentQuestion,
                      IF r.real
                      THEN analyzeWithMediaPipe(PrimaryFaceOf(held), held,
                                                frame.audio, 0)
                      ELSE fallbackAnalysis(frame.audio, 0))
    /\ op' = <<"analyzeFrame", "none">>
    /\ UNCHANGED <<mediaState, samplerVars, windowVars, frame, videoData, processed, componentVars>>

NextHistory ==
    \/ ~resetEffectDue /\ handleQuestionEnd /\ UNCHANGED pageVars
    \/ ~resetEffectDue /\ AnalysisIntervalEffect /\ UNCHANGED pageVars
    \/ \E n \in 0..MaxDetections : HandleMediaPipeResults(n)
    \/ HistoryTick
    \/ handleSubmit
    \/ \E e \in evaluating : EvaluateOk(e)
    \/ QuestionResetEffect

SpecHistory == InitHistory /\ [][NextHistory]_vars

-----------------------------------------------------------------------------
\* SpecSpeech: TextToSpeech reads one question aloud. textToSpeech.text tells
\* whether the question has any text, audio is the state of audioRef.current
\* ("none" while it is null), timer the 500 ms timer of the autoPlay effect.
\* The user presses the listen button only once that timer has fired.

InitSpeech ==
    /\ CaptureGranted /\ InitSamplerVars /\ InitWindowVars /\ InitScoreVars
    /\ videoAnalysis = NoStandalone
    /\ \E text \in BOOLEAN :
          textToSpeech = [NoSpeech EXCEPT !.text = text, !.timer = text]

\* handleSpeak: without text it reports an error; with text it sets isPlaying,
\* calls onStart and starts generateAudio.
handleSpeak ==
    IF ~textToSpeech.text
    THEN /\ handleQuestionError
         /\ textToSpeech' = [textToSpeech EXCEPT !.timer = FALSE]
    ELSE /\ handleQuestionStart
         /\ textToSpeech' = [textToSpeech EXCEPT !.timer = FALSE,
                                                 !.isPlaying = TRUE,
                                                 !.isGenerating = TRUE]

\* The timer of the autoPlay effect fires.
AutoPlayTimer ==
    /\ textToSpeech.timer
    /\ handleSpeak
    /\ UNCHANGED <<windowVars, scoreVars, videoAnalysis>>

\* The listen button, shown while neither generating nor playing.
ListenClick ==
    /\ ~textToSpeech.timer
    /\ ~textToSpeech.isGenerating /\ ~textToSpeech.isPlaying
    /\ handleSpeak
    /\ UNCHANGED <<windowVars, scoreVars, videoAnalysis>>

\* generateAudio returns and audio.play() resolves: the audio plays.
GenerateAudioOk ==
    /\ NoEffectDue
    /\ textToSpeech.isGenerating
    /\ textToSpeech' = [textToSpeech EXCEPT !.isGenerating = FALSE,
                                            !.audio = "playing"]
    /\ op' = <<"generateAudio", "none">>
    /\ UNCHANGED <<mediaState, samplerVars, windowVars, scoreVars, videoAnalysis>>

\* generateAudio throws (the request failed), or audio.play() rejects: the
\* catch of handleSpeak clears isPlaying and calls onError.
GenerateAudioFail(played) ==
    /\ textToSpeech.isGenerating
    /\ handleQuestionError
    /\ textToSpeech' = [textToSpeech EXCEPT !.isGenerating = FALSE,
                                            !.isPlaying = FALSE,
                                            !.audio = IF played THEN "failed" ELSE @]
    /\ UNCHANGED <<windowVars, scoreVars, videoAnalysis>>

\* audio.onended
AudioEnded ==
    /\ textToSpeech.audio = "playing"
    /\ handleQuestionEnd
    /\ textToSpeech' = [textToSpeech EXCEPT !.isPlaying = FALSE, !.audio = "ended"]
    /\ UNCHANGED <<windowVars, scoreVars, videoAnalysis>>

\* audio.onerror
AudioError ==
    /\ textToSpeech.audio = "playing"
    /\ handleQuestionError
    /\ textToSpeech' = [textToSpeech EXCEPT !.isPlaying = FALSE, !.audio = "failed"]
    /\ UNCHANGED <<windowVars, scoreVars, videoAnalysis>>

\* handleStop, from the stop button (shown while generating or playing,
\* disabled while generating): the audio is paused and rewound, isPlaying
\* cleared. A paused audio fires neither onended nor onerror.
handleStop ==
    /\ NoEffectDue
    /\ textToSpeech.isPlaying /\ ~textToSpeech.isGenerating
    /\ textToSpeech' = [textToSpeech EXCEPT
                           !.isPlaying = FALSE,
                           !.audio = IF @ = "none" THEN @ ELSE "paused"]
    /\ op' = <<"handleStop", "none">>
    /\ UNCHANGED <<mediaState, samplerVars, windowVars, scoreVars, videoAnalysis>>

NextSpeech ==
    \/ AutoPlayTimer
    \/ ListenClick
    \/ GenerateAudioOk
    \/ \E played \in BOOLEAN : GenerateAudioFail(played)
    \/ AudioEnded
    \/ AudioError
    \/ handleStop
    \/ VideoReady /\ UNCHANGED pageVars
    \/ AnalysisIntervalEffect /\ UNCHANGED pageVars
    \/ ProcessingIntervalEffect /\ UNCHANGED pageVars
    \/ MediaPipeInitOk /\ UNCHANGED pageVars

\* What happens without the user: the timer fires, the request for the audio
\* is answered, an audio that plays ends or fails, effects run.
FairSpeech ==
    /\ WF_vars(AutoPlayTimer)
    /\ WF_vars(GenerateAudioOk \/ \E played \in BOOLEAN : GenerateAudioFail(played))
    /\ WF_vars(AudioEnded \/ AudioError)
    /\ WF_vars(AnalysisIntervalEffect /\ UNCHANGED pageVars)
    /\ WF_vars(ProcessingIntervalEffect /\ UNCHANGED pageVars)

SpecSpeech == InitSpeech /\ [][NextSpeech]_vars /\ FairSpeech

-----------------------------------------------------------------------------
\* SpecStandalone: the standalone VideoAnalysis component, which opens its own
\* capture. videoAnalysis.pending counts the getUserMedia calls of the mounted
\* instance that are not settled, stale those of instances unmounted since;
\* open is the set of streams with live tracks, delivered their number so far.

\* videoRef.current is set while the <video> is rendered: showPreview and
\* hasPermissions.
VideoElementMounted ==
    videoAnalysis.mounted /\ videoAnalysis.showPreview /\ videoAnalysis.hasPermissions

\* The component mounts: its mount effect calls initializeCamera.
StandaloneMount(showPreview) ==
    /\ ~videoAnalysis.mounted
    /\ videoAnalysis.delivered + videoAnalysis.stale < MaxRequests
    /\ videoAnalysis' = [videoAnalysis EXCEPT !.mounted = TRUE,
                                              !.showPreview = showPreview,
                                              !.pending = 1,
                                              !.streamRef = None,
                                              !.hasPermissions = FALSE,
                                              !.isInitialized = FALSE,
                                              !.error = FALSE]
    /\ op' = <<"standaloneMount", "none">>
    /\ UNCHANGED <<mediaState, samplerVars, windowVars, scoreVars, textToSpeech>>

\* initializeCamera after the await: the stream is recorded, and the component
\* initialized, if videoRef.current is set.
InitializeCameraResolve ==
    /\ videoAnalysis.pending > 0
    /\ LET id == videoAnalysis.delivered + 1
       IN  videoAnalysis' =
              IF VideoElementMounted
              THEN [videoAnalysis EXCEPT !.pending = @ - 1,
                                         !.delivered = id,
                                         !.open = @ \cup {id},
                                         !.streamRef = id,
                                         !.hasPermissions = TRUE,
                                         !.isInitialized = TRUE,
                                         !.error = FALSE]
              ELSE [videoAnalysis EXCEPT !.pending = @ - 1,
                                         !.delivered = id,
                                         !.open = @ \cup {id}]
    /\ op' = <<"initializeCamera", "resolved">>
    /\ UNCHANGED <<mediaState, samplerVars, windowVars, scoreVars, textToSpeech>>

\* initializeCamera, the catch.
InitializeCameraReject ==
    /\ videoAnalysis.pending > 0
    /\ videoAnalysis' = [videoAnalysis EXCEPT !.pending = @ - 1, !.error = TRUE]
    /\ op' = <<"initializeCamera", "rejected">>
    /\ UNCHANGED <<mediaState, samplerVars, windowVars, scoreVars, textToSpeech>>

\* getUserMedia settles for an instance that has unmounted: its videoRef.current
\* is null, its state setters do nothing.
InitializeCameraLate(resolved) ==
    /\ videoAnalysis.stale > 0
    /\ videoAnalysis' =
          IF resolved
          THEN [videoAnalysis EXCEPT !.stale = @ - 1,
                                     !.delivered = @ + 1,
                                     !.open = @ \cup {videoAnalysis.delivered + 1}]
          ELSE [videoAnalysis EXCEPT !.stale = @ - 1]
    /\ op' = <<"initializeCamera", "late">>
    /\ UNCHANGED <<mediaState, samplerVars, windowVars, scoreVars, textToSpeech>>

\* The component unmounts: the cleanup of the mount effect stops the tracks of
\* streamRef.current, if it is set.
StandaloneUnmount ==
    /\ videoAnalysis.mounted
    /\ videoAnalysis' = [videoAnalysis EXCEPT
                            !.mounted = FALSE,
                            !.stale = @ + videoAnalysis.pending,
                            !.pending = 0,
                            !.open = @ \ {videoAnalysis.streamRef}]
    /\ op' = <<"standaloneUnmount", "none">>
    /\ UNCHANGED <<mediaState, samplerVars, windowVars, scoreVars, textToSpeech>>

\* The component's life, and the parent changing its isActive prop.
NextStandalone ==
    \/ \E showPreview \in BOOLEAN : StandaloneMount(showPreview)
    \/ InitializeCameraResolve
    \/ InitializeCameraReject
    \/ \E resolved \in BOOLEAN : InitializeCameraLate(resolved)
    \/ StandaloneUnmount
    \/ handleQuestionStart /\ UNCHANGED pageVars
    \/ handleQuestionEnd /\ UNCHANGED pageVars

SpecStandalone == Init /\ [][NextStandalone]_vars

-----------------------------------------------------------------------------
\* SpecReport: the results page aggregates all the samples of the interview.
\* Timestamps are in milliseconds.

MaxStored == 3

ReportTimes == {0, 5000, 30000, 65000, 95000}

\* The samples of an interview in the order they were emitted, each under its
\* question: times go up and questions do not go down.
Emissions ==
    {f \in UNION {[1..n -> ReportTimes \X (0..(MaxQuestions - 1))] : n \in 0..MaxStored} :
        \A i \in 1..(Len(f) - 1) :
            f[i][1] < f[i + 1][1] /\ f[i][2] <= f[i + 1][2]}

\* The window stored with the evaluation of question q.
WindowOf(f, q) ==
    LET Under(x) == x.question = q
    IN  SelectSeq([i \in 1..Len(f) |-> EmittedUnder(f[i][2], SampleOf(FALSE, f[i][1]))],
                  Under)

\* evaluationResults after the first n questions were evaluated.
ResultsOf(f, n) == [i \in 1..n |-> [question |-> i - 1, videoAnalysis |-> WindowOf(f, i - 1)]]

InitReport ==
    /\ CaptureGranted /\ InitSamplerVars /\ InitScoreVars
    /\ InitComponentVars
    /\ currentQuestion = MaxQuestions - 1
    /\ isLoading = FALSE
    /\ videoAnalysisData = <<>>
    /\ evaluating = {}
    /\ \E f \in Emissions :
          evaluationResults = ResultsOf(f, MaxQuestions)
    /\ resetEffectDue = FALSE
    /\ now = 0

\* ResultsPage.getAllVideoAnalysisData: flatMap of the stored windows.
getAllVideoAnalysisData_LastOnly(results) ==
    IF results = <<>> THEN <<>>
    ELSE results[Len(results)].videoAnalysis

RECURSIVE getAllVideoAnalysisData(_)
getAllVideoAnalysisData(results) ==
    IF results = <<>> THEN <<>>
    ELSE getAllVideoAnalysisData(SubSeq(results, 1, Len(results) - 1))
           \o results[Len(results)].videoAnalysis

\* ResultsPage shows VideoAnalysisResults of allVideoData when there is any.
OverallReport ==
    /\ Len(getAllVideoAnalysisData(evaluationResults)) > 0
    /\ videoData' = [defined |-> TRUE,
                     items |-> getAllVideoAnalysisData(evaluationResults)]
    /\ processed' = processVideoAnalysisDataCompatible(videoData')
    /\ op' = <<"getAllVideoAnalysisData", "none">>
    /\ UNCHANGED <<mediaState, samplerVars, windowVars, frame, sample, componentVars>>

\* ResultsPage shows VideoAnalysisResults of the window of one evaluation.
QuestionReport(i) ==
    /\ i \in 1..Len(evaluationResults)
    /\ Len(evaluationResults[i].videoAnalysis) > 0
    /\ videoData' = [defined |-> TRUE, items |-> evaluationResults[i].videoAnalysis]
    /\ processed' = processVideoAnalysisDataCompatible(videoData')
    /\ op' = <<"questionReport", "none">>
    /\ UNCHANGED <<mediaState, samplerVars, windowVars, frame, sample, componentVars>>

NextReport ==
    \/ OverallReport
    \/ \E i \in 1..MaxQuestions : QuestionReport(i)

SpecReport == InitReport /\ [][NextReport]_vars

-----------------------------------------------------------------------------
\* Claims about the capture session, checked under Spec.

providerState == <<streamRef, stream, hasPermissions, isInitializing, error,
                   pending, open, stopCount, hwRequests>>

\* C1: a requestAccess issued while a stream is held issues no hardware request
\* and leaves the held stream, hasPermissions and error as they were.
C1_RequestWhileHeldIsNoop ==
    [][(op'[1] = "requestAccess" /\ streamRef # None)
          => /\ hwRequests' = hwRequests
             /\ pending' = pending
             /\ streamRef' = streamRef
             /\ stream' = stream
             /\ open' = open
             /\ hasPermissions' = hasPermissions
             /\ error' = error]_vars

C1_Witness ==
    /\ op[1] = "requestAccess"
    /\ streamRef # None
    /\ streamRef \in open

\* C2: at most one hardware request is in flight and at most one stream is
\* open; no opened stream is overwritten and left running.
C2_SingleCapture ==
    /\ pending <= 1
    /\ Cardinality(open) <= 1
    /\ open \subseteq {streamRef}

\* C3: while several consumers hold the shared handle, a release by one of them
\* does not stop the tracks the others are using.
C3_ReleaseKeepsSharedTracks ==
    [][(op'[1] = "stopStream" /\ op'[2] \in Consumers /\ Cardinality(Holders) >= 2)
          => stream \in open']_vars

\* The four states of the capture session, read off the provider's fields.
CaptureState ==
    IF stream # None THEN "Active"
    ELSE IF isInitializing THEN "Requesting"
    ELSE IF error # NoError THEN "Failed"
    ELSE "Idle"

\* C4: the observable fields agree with the state of the session: a stream is
\* held iff hasPermissions is true, and no error is set while a stream is held.
C4_FieldsAgreeWithState ==
    providerMounted =>
        /\ (stream # None) <=> hasPermissions
        /\ stream # None => error = NoError
        /\ CaptureState \in {"Idle", "Requesting", "Active", "Failed"}

C6_NoAutomaticRetry ==
    [][/\ (op'[1] = "reject" /\ providerMounted)
             => /\ error' \in {"PermissionDenied", "DeviceUnavailable",
                               "DeviceBusy", "Generic"}
                /\ ~hasPermissions'
                /\ hwRequests' = hwRequests
       /\ (error # NoError /\ hwRequests' > hwRequests)
             => op' = <<"requestAccess", "button">>]_vars

C6_Witness ==
    /\ op[1] = "effect"
    /\ error = "DeviceBusy"
    /\ pending = 0
    /\ hwRequests = 1

-----------------------------------------------------------------------------
\* Claims about sampling, checked under SpecSampler.

\* C7: samples are emitted only by ticks that fire while analysis is enabled: no
\* analysis interval is live while it is disabled, so a pause yields no sample,
\* and after a re-enable the samples never outnumber the periods that have
\* passed since (no sample makes up for a missed tick).
C7_SamplesOnlyWhileEnabled ==
    /\ lastTick.emitted => lastTick.active
    /\ (~videoAnalysisActive /\ ~intervalEffectDue) => ~analysisInterval.on
    /\ analysisInterval.on => periodSamples * Period <= elapsed

C7_Witness ==
    /\ wasPaused
    /\ analysisInterval.on
    /\ elapsed = Period
    /\ periodSamples = 1
    /\ lastTick.emitted

\* C8: at most one detector call on a frame is running at a time.
C8_SingleInFlight == inFlight <= 1

\* C9: enabled without a break for 60 seconds and with no tick skipped by an
\* error, the 5-second interval has emitted 12 samples, give or take one.
C9_TwelveSamplesPerMinute ==
    (analysisInterval.on /\ elapsed = 60 /\ periodErrors = 0)
        => periodSamples \in 11..13

C9_Witness ==
    /\ analysisInterval.on
    /\ elapsed = 60
    /\ periodErrors = 0
    /\ periodSamples = 12

C13_ErrorSkipsOneTick ==
    [][op'[1] = "analyzeFrame"
          => /\ analysisInterval'.on
             /\ analysisInterval'.due = Period
             /\ elapsed' = elapsed
             /\ IF lastTick'.threw
                THEN /\ ~lastTick'.emitted
                     /\ periodSamples' = periodSamples
                ELSE /\ lastTick'.emitted
                     /\ periodSamples' = periodSamples + 1]_vars

C13_Witness ==
    /\ op[1] = "analyzeFrame"
    /\ periodErrors = 1
    /\ lastTick.emitted
    /\ ~lastTick.threw
    /\ periodSamples = 1
    /\ elapsed = 2 * Period

-----------------------------------------------------------------------------
\* Claims about the scores of a sample, checked under SpecAnalysis.

\* C15: in every sample, whichever analysis produced it, the posture, movement
\* and audio scores and the overall score lie in 0..10.
C15_ScoresInRange ==
    sample # NoSample =>
        /\ sample.posture.score \in 0..10
        /\ sample.movement.score \in 0..10
        /\ sample.audioQuality.score \in 0..10
        /\ sample.overall.score \in 0..10

C15_Witness ==
    /\ sample # NoSample
    /\ sample.kind = "mediapipe"
    /\ sample.posture.score = 10
    /\ sample.movement.score = 0
    /\ sample.audioQuality.score = 9
    /\ sample.overall.score = 6

\* The additive posture scheme with the given bonus terms, capped to 0..10.
Additive(present, centered, distanceOk, bonus) ==
    Max(0, Min(10, (IF present THEN 3 ELSE 0) + (IF centered THEN 3 ELSE 0)
                     + (IF distanceOk THEN 2 ELSE 0) + bonus))

\* C16 as stated: the posture score of a face observation is +3 if present, +3
\* if centered, +2 if the distance is ok, +2 if the landmark detector is in use
\* with confidence > 0.8, capped to 0..10.
C16_PostureAdditiveBonusTwo ==
    sample.kind \in {"mediapipe", "fallback"} =>
        sample.posture.score =
            Additive(sample.posture.faceVisible, sample.posture.faceCentered,
                     sample.posture.appropriateDistance,
                     IF sample.faceDetection.realMediaPipe
                        /\ sample.faceDetection.confidence > 800 THEN 2 ELSE 0)

\* C16 amended: for a sample computed from a detected face the bonus is +1 for a
\* confidence > 0.8 and +1 for a horizontal offset < 0.1; the fallback sample
\* has the fixed posture score 5.
C16_PostureAdditiveTwoBonuses ==
    /\ sample.kind = "mediapipe" =>
          sample.posture.score =
              Additive(sample.posture.faceVisible, sample.posture.faceCentered,
                       sample.posture.appropriateDistance,
                       (IF sample.faceDetection.confidence > 800 THEN 1 ELSE 0)
                         + (IF sample.posture.horizontalAlignment < 100
                            THEN 1 ELSE 0))
    /\ sample.kind = "fallback" => sample.posture.score = 5

C16_Witness ==
    /\ sample.kind = "mediapipe"
    /\ sample.posture.faceVisible
    /\ sample.posture.faceCentered
    /\ sample.posture.appropriateDistance
    /\ sample.faceDetection.confidence = 900
    /\ sample.posture.horizontalAlignment = 150
    /\ sample.posture.score = 9

-----------------------------------------------------------------------------
\* Claims about the aggregation of a window, checked under SpecAggregate.

Aggregated == processed.by # "none"

NonEmptyWindow == videoData.defined /\ Len(videoData.items) > 0

\* C17: aggregating an empty window, or a missing one, returns the default
\* aggregate, in which every score and the number of measures are zero.
C17_EmptyWindowGivesZeroAggregate ==
    (Aggregated /\ ~NonEmptyWindow) =>
        /\ processed.postureScore = 0
        /\ processed.stabilityScore = 0
        /\ processed.voiceQualityScore = 0
        /\ processed.presenceScore = 0
        /\ processed.professionalismScore = 0
        /\ processed.overallBehavioralScore = 0
        /\ processed.analytics.totalMeasures = 0
        /\ processed.analytics.consistencyScore = 0

C17_Witness ==
    /\ ~videoData.defined
    /\ processed.by = "processVideoAnalysisData"
    /\ processed.overallBehavioralScore = 0

\* The sums the aggregates are means of. The presence of a sample is, for
\* processVideoAnalysisData, ten thirds for each of the three flags set, and
\* for processVideoAnalysisDataCompatible the capped sum of PresenceOf.
PostureTotal ==
    SumSeq([i \in 1..Len(videoData.items) |-> videoData.items[i].posture.score])

MovementTotal ==
    SumSeq([i \in 1..Len(videoData.items) |-> videoData.items[i].movement.score])

AudioTotal ==
    SumSeq([i \in 1..Len(videoData.items) |-> videoData.items[i].audioQuality.score])

FlagsSet(d) ==
    (IF d.posture.faceVisible THEN 1 ELSE 0)
      + (IF d.posture.faceCentered THEN 1 ELSE 0)
      + (IF d.posture.appropriateDistance THEN 1 ELSE 0)

\* Three times the sum of the samples' presence.
PresenceTotalTimesThree ==
    IF processed.by = "processVideoAnalysisData"
    THEN SumSeq([i \in 1..Len(videoData.items) |-> 10 * FlagsSet(videoData.items[i])])
    ELSE SumSeq([i \in 1..Len(videoData.items) |-> 3 * PresenceOf(videoData.items[i])])

\* value = total / count
IsMean(value, total, count) == value * count = total

\* value is total / count rounded to the nearest integer, a half going up.
IsRoundedMean(value, total, count) ==
    /\ 2 * count * value - count <= 2 * total
    /\ 2 * total < 2 * count * value + count

\* C18 as stated: for a non-empty window the posture, movement, audio and
\* presence aggregates equal the mean of the samples' values.
C18_AggregatesAreMeans ==
    (Aggregated /\ NonEmptyWindow) =>
        /\ IsMean(processed.postureScore, PostureTotal, Len(videoData.items))
        /\ IsMean(processed.stabilityScore, MovementTotal, Len(videoData.items))
        /\ IsMean(processed.voiceQualityScore, AudioTotal, Len(videoData.items))
        /\ IsMean(processed.presenceScore, PresenceTotalTimesThree,
                  3 * Len(videoData.items))

\* C18, amended: for a non-empty window the posture, movement, audio and
\* presence aggregates equal the mean of the samples' values rounded to the
\* nearest integer, a half rounded up.
C18_AggregatesAreRoundedMeans ==
    (Aggregated /\ NonEmptyWindow) =>
        /\ IsRoundedMean(processed.postureScore, PostureTotal, Len(videoData.items))
        /\ IsRoundedMean(processed.stabilityScore, MovementTotal,
                         Len(videoData.items))
        /\ IsRoundedMean(processed.voiceQualityScore, AudioTotal,
                         Len(videoData.items))
        /\ IsRoundedMean(processed.presenceScore, PresenceTotalTimesThree,
                         3 * Len(videoData.items))

\* Postures 5 and 10: the mean is 7.5 and the aggregate 8.
C18_Witness ==
    /\ processed.by = "processVideoAnalysisData"
    /\ Len(videoData.items) = 2
    /\ PostureTotal = 15
    /\ processed.postureScore = 8

\* Every dimension that enters the overall score has the value v.
AllDimensionsEqual(v) ==
    IF processed.by = "processVideoAnalysisData"
    THEN /\ IsMean(v, PostureTotal, Len(videoData.items))
         /\ IsMean(v, MovementTotal, Len(videoData.items))
         /\ IsMean(v, AudioTotal, Len(videoData.items))
         /\ processed.presenceScore = v
         /\ processed.professionalismScore = v
    ELSE /\ processed.postureScore = v
         /\ processed.stabilityScore = v
         /\ processed.voiceQualityScore = v
         /\ processed.presenceScore = v

\* C19: the weights of the overall score sum to one, the overall score of a
\* window lies in 0..10, and it is v when every dimension averaged is v.
C19_OverallIsWeightedMean ==
    /\ overallWeights.posture + overallWeights.movement + overallWeights.audio
         + overallWeights.presence + overallWeights.professionalism = 100
    /\ (Aggregated /\ NonEmptyWindow) =>
          /\ processed.overallBehavioralScore \in 0..10
          /\ \A v \in 0..10 :
                AllDimensionsEqual(v) => processed.overallBehavioralScore = v

C19_Witness ==
    /\ processed.by = "processVideoAnalysisData"
    /\ Len(videoData.items) = 2
    /\ videoData.items[1].posture.score # videoData.items[2].posture.score
    /\ AllDimensionsEqual(5)
    /\ processed.overallBehavioralScore = 5

OverallScoresOf(w) == [i \in 1..Len(w) |-> w[i].overall.score]

SameMean(w1, w2) ==
    SumSeq(OverallScoresOf(w1)) * Len(w2) = SumSeq(OverallScoresOf(w2)) * Len(w1)

\* The variance of the overall scores of w1 is at least that of w2.
VarianceAtLeast(w1, w2) ==
    ScaledVariance(OverallScoresOf(w1)) * Len(w2) * Len(w2)
        >= ScaledVariance(OverallScoresOf(w2)) * Len(w1) * Len(w1)

ConsistencyBy(by, w) ==
    IF by = "processVideoAnalysisData"
    THEN processVideoAnalysisData([defined |-> TRUE, items |-> w]).analytics.consistencyScore
    ELSE processVideoAnalysisDataCompatible([defined |-> TRUE, items |-> w]).analytics.consistencyScore

\* C20: the consistency score lies in 0..10, and a window whose overall
\* scores have the same mean and at least the variance of the window
\* aggregated never gets a higher consistency score from the same function.
C20_ConsistencyFollowsVariance ==
    (Aggregated /\ NonEmptyWindow) =>
        /\ processed.analytics.consistencyScore \in 0..10
        /\ \A w \in Windows :
              (Len(w) > 0 /\ SameMean(w, videoData.items)
                 /\ VarianceAtLeast(w, videoData.items))
              => ConsistencyBy(processed.by, w)
                    <= processed.analytics.consistencyScore

-----------------------------------------------------------------------------
\* Claims about the window of a question, checked under SpecWindow.

IsPrefix(s, t) == Len(s) <= Len(t) /\ \A i \in 1..Len(s) : s[i] = t[i]

\* The interval analyses with the detector: its samples are MediaPipe samples.
LandmarkStrategy(cl) == cl.on /\ cl.ready /\ cl.det

AggregateOfFirst(k, w) ==
    processVideoAnalysisDataCompatible([defined |-> TRUE, items |-> SubSeq(w, 1, k)])

\* C12: no step modifies a sample already in the window or in a stored window
\* (the window is either emptied or extended at its end); the step in which the
\* interval passes from fallback to MediaPipe samples leaves the window as it
\* is; a step that aggregates leaves the window and the stored windows as they
\* are; and aggregating the samples the window held before a step gives the
\* same result after it.
C12_SwitchKeepsEarlierSamples ==
    [][/\ videoAnalysisData' # <<>> => IsPrefix(videoAnalysisData, videoAnalysisData')
       /\ IsPrefix(evaluationResults, evaluationResults')
       /\ (~LandmarkStrategy(analysisInterval) /\ LandmarkStrategy(analysisInterval'))
             => videoAnalysisData' = videoAnalysisData
       /\ processed' # processed
             => /\ videoAnalysisData' = videoAnalysisData
                /\ evaluationResults' = evaluationResults
       /\ videoAnalysisData' # <<>>
             => \A k \in 1..Len(videoAnalysisData) :
                   AggregateOfFirst(k, videoAnalysisData')
                       = AggregateOfFirst(k, videoAnalysisData)]_vars

\* A stored window that starts with a fallback sample and goes on with a
\* MediaPipe sample has been aggregated.
C12_Witness ==
    /\ processed.by = "processVideoAnalysisDataCompatible"
    /\ Len(videoData.items) >= 2
    /\ videoData.items[1].kind = "fallback"
    /\ videoData.items[2].kind = "mediapipe"

AscendingTimestamps(w) ==
    \A i, j \in 1..Len(w) : i < j => w[i].overall.timestamp < w[j].overall.timestamp

AllEmittedUnder(q, w) == \A i \in 1..Len(w) : w[i].question = q

\* C14: the window is in ascending order of timestamps and, once the reset
\* effect of a question change has run, holds only samples emitted under the
\* current question; the window handed over with an answer and the window
\* stored with an evaluation hold, in ascending order, only samples emitted
\* under the question they are submitted or stored for.
C14_WindowBelongsToItsQuestion ==
    /\ AscendingTimestamps(videoAnalysisData)
    /\ ~resetEffectDue => AllEmittedUnder(currentQuestion, videoAnalysisData)
    /\ \A e \in evaluating :
          /\ AscendingTimestamps(e.videoAnalysis)
          /\ AllEmittedUnder(e.question, e.videoAnalysis)
    /\ \A i \in 1..Len(evaluationResults) :
          /\ AscendingTimestamps(evaluationResults[i].videoAnalysis)
          /\ AllEmittedUnder(evaluationResults[i].question,
                             evaluationResults[i].videoAnalysis)

\* Two questions evaluated, each stored with the one sample emitted under it.
C14_Witness ==
    /\ Len(evaluationResults) = 2
    /\ evaluationResults[2].question = 1
    /\ Len(evaluationResults[1].videoAnalysis) = 1
    /\ evaluationResults[1].videoAnalysis[1].overall.timestamp = 0
    /\ Len(evaluationResults[2].videoAnalysis) = 1
    /\ evaluationResults[2].videoAnalysis[1].overall.timestamp = 1

-----------------------------------------------------------------------------
\* Claims about the trend and the lists of an aggregate.

\* The trend the function applied reports for the overall score.
TrendReported ==
    IF processed.by = "calculateTrendAnalysis"
    THEN processed.overallTrend
    ELSE processed.analytics.improvementTrend

OverallSum(w) == SumSeq([i \in 1..Len(w) |-> w[i].overall.score])

\* Twice the size of both halves times the mean overall score of the second
\* half less that of the first half.
TwiceHalvesGap(w) ==
    LET half == Len(w) \div 2
        first == SubSeq(w, 1, half)
        second == SubSeq(w, half + 1, Len(w))
    IN  2 * (OverallSum(second) * Len(first) - OverallSum(first) * Len(second))

HalvesProduct(w) == (Len(w) \div 2) * (Len(w) - Len(w) \div 2)

\* C21: the trend is stable for fewer than 3 samples; for 3 or more it is
\* improving exactly when the mean overall score of the second half exceeds
\* that of the first half by more than 0.5, declining exactly when it is lower
\* by more than 0.5, and stable otherwise, a difference of exactly 0.5 included.
C21_TrendFollowsHalves ==
    processed.by # "none" =>
        IF Len(videoData.items) < 3
        THEN TrendReported = "stable"
        ELSE /\ TrendReported = "improving"
                  <=> TwiceHalvesGap(videoData.items) > HalvesProduct(videoData.items)
             /\ TrendReported = "declining"
                  <=> TwiceHalvesGap(videoData.items) < 0 - HalvesProduct(videoData.items)
             /\ TrendReported \in {"improving", "declining", "stable"}

\* The aggregate score of an area.
AreaScore(a) ==
    CASE a = "posture" -> processed.postureScore
      [] a = "movement" -> processed.stabilityScore
      [] a = "audio" -> processed.voiceQualityScore

\* C22: posture, movement and audio are each listed as a strength exactly when
\* the aggregate score is at least 8 and as an improvement area exactly when it
\* is at most 5; none is in both lists.
C22_ListsFollowThresholds ==
    (Aggregated /\ NonEmptyWindow) =>
        \A a \in Areas :
            /\ a \in processed.analytics.strengths <=> AreaScore(a) >= 8
            /\ a \in processed.analytics.improvementAreas <=> AreaScore(a) <= 5
            /\ ~(a \in processed.analytics.strengths
                   /\ a \in processed.analytics.improvementAreas)

-----------------------------------------------------------------------------
\* Claims about the report of the whole interview, checked under SpecReport.

RECURSIVE StoredSizes(_)
StoredSizes(results) ==
    IF results = <<>> THEN 0
    ELSE Len(results[1].videoAnalysis) + StoredSizes(Tail(results))

\* The aggregate in processed is the report of the whole interview.
OverallReported ==
    /\ processed.by = "processVideoAnalysisDataCompatible"
    /\ op = <<"getAllVideoAnalysisData", "none">>

\* The samples aggregated are those of the stored windows, window after
\* window in the order of the questions.
InQuestionOrder ==
    /\ \A i \in 1..(Len(videoData.items) - 1) :
          videoData.items[i].question <= videoData.items[i + 1].question
    /\ \A q \in 1..Len(evaluationResults) :
          LET Under(x) == x.question = evaluationResults[q].question
          IN  SelectSeq(videoData.items, Under) = evaluationResults[q].videoAnalysis

TimeSpan ==
    videoData.items[Len(videoData.items)].overall.timestamp
        - videoData.items[1].overall.timestamp

\* C23 as stated: the overall report aggregates the concatenation, in question
\* order, of the stored windows; its sample count is the sum of their sizes and
\* its elapsed time, in minutes, is the last timestamp less the first.
C23_ReportOfConcatenation ==
    OverallReported =>
        /\ InQuestionOrder
        /\ processed.analytics.totalMeasures = StoredSizes(evaluationResults)
        /\ processed.analytics.analysisTimeMinutes * 60000 = TimeSpan

\* C23, amended: the same, the elapsed time being the last timestamp less the
\* first in minutes rounded to the nearest integer, a half rounded up.
C23_ReportOfConcatenationRounded ==
    OverallReported =>
        /\ InQuestionOrder
        /\ processed.analytics.totalMeasures = StoredSizes(evaluationResults)
        /\ 2 * 60000 * processed.analytics.analysisTimeMinutes - 60000 <= 2 * TimeSpan
        /\ 2 * TimeSpan < 2 * 60000 * processed.analytics.analysisTimeMinutes + 60000
        /\ Len(videoData.items) = 1 => processed.analytics.analysisTimeMinutes = 0

\* Two stored windows, 95 seconds from the first sample to the last: 2 minutes.
C23_Witness ==
    /\ OverallReported
    /\ Len(evaluationResults[1].videoAnalysis) > 0
    /\ Len(evaluationResults[2].videoAnalysis) > 0
    /\ TimeSpan = 95000
    /\ processed.analytics.analysisTimeMinutes = 2

-----------------------------------------------------------------------------
\* Claims about the detector swap and the movement history, checked under
\* SpecSampler.

\* C24: a tick that fires while sampling is enabled, the detector ready and a
\* face reported, and that no error stops, emits a sample of the MediaPipe
\* path, whether or not sampling was paused since the detector became ready.
C24_TickUsesLatestDetection ==
    [][(/\ op'[1] = "analyzeFrame"
        /\ videoAnalysisActive
        /\ mediaPipe = "ready"
        /\ lastFaceDetections > 0
        /\ ~lastTick'.threw)
          => (lastTick'.emitted /\ lastTick'.real)]_vars

\* The positions of a history that were recorded under question q.
RecordedUnder(q, faceHistory) ==
    SelectSeq(faceHistory, LAMBDA h : h.question = q)

\* C25: the face history never holds more than a fixed number of positions;
\* the movement of a MediaPipe sample is computed from at most the last 10
\* positions held; and it is the movement of the positions recorded under the
\* sample's own question, the history being emptied when the question changes.
C25_HistoryBoundedPerQuestion ==
    /\ Len(frame.faceHistory) <= HistoryKept + 1
    /\ (op[1] = "analyzeFrame" /\ sample.kind = "mediapipe")
          => LET held == analysisInterval.faceHistory
                 own == RecordedUnder(sample.question, held)
             IN  /\ sample.movement
                       = analyzeWithMediaPipe(PrimaryFaceOf(held),
                            IF Len(held) > 3 THEN SliceLast(held, 10) ELSE <<>>,
                            frame.audio, 0).movement
                 /\ sample.movement
                       = analyzeWithMediaPipe(PrimaryFaceOf(held), own,
                                              frame.audio, 0).movement

-----------------------------------------------------------------------------
\* Claims about teardown, checked under Spec.

\* C26: once the provider has been torn down and no capture request is pending
\* any more, no stream has live tracks and the provider holds no stream.
C26_TeardownLeavesNoStream ==
    (~providerMounted /\ pending = 0) => (open = {} /\ streamRef = None)

-----------------------------------------------------------------------------
\* Claims about the reading of a question, checked under SpecSpeech.

\* The reading has stopped: it has started and nothing is generated or played.
ReadingStopped ==
    /\ op[1] \in {"handleQuestionEnd", "handleQuestionError", "handleStop"}
    /\ ~textToSpeech.isPlaying /\ ~textToSpeech.isGenerating

\* C27: once the reading of a question has stopped, by its end, by an error or
\* by the stop button, the question eventually counts as read with the AI not
\* speaking, which enables sampling again.
C27_StoppedReadingLeadsToRead ==
    ReadingStopped ~> (questionHasBeenRead /\ ~aiIsSpeaking)

-----------------------------------------------------------------------------
\* Claims about submitting and the progress of the interview, checked under
\* SpecWindow.

\* C28: when the evaluation of a submitted answer fails, the samples that were
\* handed over with it are still in the window of the question, ahead of the
\* samples emitted since.
C28_FailedSubmitKeepsWindow ==
    [][\A e \in evaluating :
          (e \notin evaluating' /\ evaluationResults' = evaluationResults)
             => IsPrefix(e.videoAnalysis, videoAnalysisData')]_vars

\* C29: currentQuestion stays within the questions; a step stores at most one
\* evaluation, and the one it stores is an evaluation under way for the current
\* question, with the window submitted with it; storing one moves to the next
\* question, or from the last question to the results; and nothing else changes
\* the question or leaves the interview.
C29_QuestionFollowsEvaluations ==
    [][/\ currentQuestion' \in 0..(MaxQuestions - 1)
       /\ IF evaluationResults' # evaluationResults
          THEN /\ \E e \in evaluating :
                     /\ e.question = currentQuestion
                     /\ evaluationResults' = Append(evaluationResults, e)
               /\ IF currentQuestion < MaxQuestions - 1
                  THEN currentQuestion' = currentQuestion + 1 /\ providerMounted'
                  ELSE currentQuestion' = currentQuestion /\ ~providerMounted'
          ELSE /\ currentQuestion' = currentQuestion
               /\ providerMounted' = providerMounted]_vars

C29_Witness ==
    /\ ~providerMounted
    /\ Len(evaluationResults) = MaxQuestions
    /\ \A i \in 1..MaxQuestions :
          /\ evaluationResults[i].question = i - 1
          /\ Len(evaluationResults[i].videoAnalysis) > 0
    /\ currentQuestion = MaxQuestions - 1

-----------------------------------------------------------------------------
\* Claims about the standalone VideoAnalysis component, checked under
\* SpecStandalone.

\* C30: every stream with live tracks is the one the mounted component holds
\* in streamRef, and a component whose initializeCamera has obtained a stream
\* is initialized.
C30_EveryStreamHasAnOwner ==
    /\ \A s \in videoAnalysis.open :
          videoAnalysis.mounted /\ videoAnalysis.streamRef = s
    /\ op = <<"initializeCamera", "resolved">> => videoAnalysis.isInitialized

====
